---- MODULE Spec2Model ----
(***************************************************************************)
(* Schedule-change request workflow of the school-management backend:      *)
(* a teacher submits a request to move a timetable slot, an admin approves *)
(* or declines it, an approved change is written to teacher_schedule_slots *)
(* and mirrored into course_schedule_slots by syncTeacherSlotToCourseSlot, *)
(* and notifications and socket events fan out.                            *)
(*                                                                         *)
(* Every handler is an async function: the store is touched once per       *)
(* `await supabase...`, so each action below is one store operation        *)
(* together with the synchronous code that follows it up to the next       *)
(* await.  Handlers of different HTTP calls interleave at these points.    *)
(***************************************************************************)
EXTENDS Integers, Sequences, FiniteSets, TLC

\* ------------------------------------------------------------------ bounds
MaxCalls == 2        \* HTTP calls issued in one behaviour of Spec
ScenarioCalls == 1   \* HTTP calls issued in one behaviour of ScenarioSpec
MaxFailures == 1     \* store errors in one behaviour of ScenarioSpec
MaxSyncRuns == 2     \* runs of the Synchronizer in one behaviour of SyncSpec
MaxCandidates == 2   \* course-slot rows per table drawn for SyncSpec

\* ------------------------------------------------------------------ values
NULL == "null"       \* SQL NULL / JS null / undefined of a text field
UNDEFINED == "undefined"  \* a body field that was not sent, where it matters
NoId == 0            \* absent numeric id (falsy)

\* JS truthiness of a text value: null, undefined and "" are falsy
Truthy(x) == x \notin {NULL, UNDEFINED, ""}

\* JS `x || null`
OrNull(x) == IF Truthy(x) THEN x ELSE NULL

Teachers == {"T1", "T2"}
Admins == {"A1"}
Students == {"U1", "U2"}

\* `ADMIN_ROLES`
ADMIN_ROLES == {"admin", "super_admin", "co_admin"}

\* users.role, as `protect` loads it into req.user; no handler modelled here
\* writes the users table
RoleOf(user) ==
  CASE user = "A1" -> "admin"
    [] user = "A2" -> "co_admin"
    [] user = "A3" -> "super_admin"
    [] user \in Teachers -> "teacher"
    [] OTHER -> "student"

\* `authorizeRoles(...roles)`: does the middleware call next()
authorizeRoles(roles, user) == RoleOf(user) \in roles

\* `requireAdminRole`
requireAdminRole(user) == authorizeRoles(ADMIN_ROLES, user)

\* ------------------------------------------------------------------ state
VARIABLES
  teacher_schedule_slots,    \* function: slot id -> row
  course_schedule_slots,     \* sequence of rows, id = position
  schedule_change_requests,  \* sequence of rows, id = position
  notifications,             \* sequence of inserted rows
  course_students,           \* set of [course_id, student_id]
  events,                    \* sequence of io.emit(...) calls
  calls,                     \* handler activations in flight, in start order
  last,                      \* the latest HTTP response sent
  budget,                    \* HTTP calls still to be issued
  faults                     \* store errors the store may still report

vars == <<teacher_schedule_slots, course_schedule_slots,
          schedule_change_requests, notifications, course_students,
          events, calls, last, budget, faults>>

tables == <<teacher_schedule_slots, course_schedule_slots,
            schedule_change_requests, notifications, course_students>>

\* ------------------------------------------------------------- sequences
SeqToSet(s) == {s[i] : i \in 1..Len(s)}

RECURSIVE SetToSeq(_)
SetToSeq(S) ==
  IF S = {} THEN <<>>
  ELSE LET x == CHOOSE y \in S : TRUE IN <<x>> \o SetToSeq(S \ {x})

\* a store operation may report an error while the budget lasts
ErrChoices == IF faults > 0 THEN {FALSE, TRUE} ELSE {FALSE}

Bump(err) == faults' = IF err THEN faults - 1 ELSE faults

\* ------------------------------------------------------------------ rows
TeacherSlot(id, t, c, d, s, e, loc, notes) ==
  [id |-> id, teacher_id |-> t, course_id |-> c, day_of_week |-> d,
   start_time |-> s, end_time |-> e, location |-> loc, notes |-> notes]

CourseSlot(id, c, t, d, s, e, loc, notes) ==
  [id |-> id, course_id |-> c, teacher_id |-> t, day_of_week |-> d,
   start_time |-> s, end_time |-> e, location |-> loc, notes |-> notes]

\* the row of `.select("id, day_of_week, start_time, end_time")`
Candidate(r) ==
  [id |-> r.id, day_of_week |-> r.day_of_week,
   start_time |-> r.start_time, end_time |-> r.end_time]

NoSlot == TeacherSlot(NoId, NULL, NULL, NULL, NULL, NULL, NULL, NULL)

NoRequest ==
  [id |-> NoId, slot_id |-> NoId, teacher_id |-> NULL, course_id |-> NULL,
   current_day_of_week |-> NULL, current_start_time |-> NULL,
   current_end_time |-> NULL, requested_day_of_week |-> NULL,
   requested_start_time |-> NULL, requested_end_time |-> NULL,
   reason |-> NULL, status |-> NULL,
   approved_by |-> NULL, approved_at |-> NULL,
   declined_by |-> NULL, declined_at |-> NULL, declined_reason |-> NULL]

\* request body of POST /timetable/request-change
Body(slotId, d, s, e, reason) ==
  [slotId |-> slotId, requestedDayOfWeek |-> d, requestedStartTime |-> s,
   requestedEndTime |-> e, reason |-> reason]

NoBody == Body(NoId, NULL, NULL, NULL, NULL)

Event(name, teacherId, slotId, courseId, type) ==
  [name |-> name, teacherId |-> teacherId, slotId |-> slotId,
   courseId |-> courseId, type |-> type]

Notification(recipient, sender, title, audience, courseId) ==
  [recipient_id |-> recipient, sender_id |-> sender, title |-> title,
   audience_scope |-> audience, course_id |-> courseId]

\* request body of PUT /timetable/teachers/slots/:slotId
EditBody(d, s, e, courseId, loc, notes) ==
  [dayOfWeek |-> d, startTime |-> s, endTime |-> e, courseId |-> courseId,
   location |-> loc, notes |-> notes]

NoEdit == EditBody(UNDEFINED, UNDEFINED, UNDEFINED, UNDEFINED, UNDEFINED,
                   UNDEFINED)

\* one activation of a route handler with its local variables
NewCall(op, user, requestId, body, declineReason, pc) ==
  [op |-> op, user |-> user, requestId |-> requestId, body |-> body,
   declineReason |-> declineReason, pc |-> pc,
   slotId |-> NoId,              \* `req.params.slotId` (admin slot routes)
   edit |-> NoEdit,              \* `req.body` of the admin slot edit
   requests |-> {},              \* ids of `requests` (admin list)
   request |-> NoRequest,        \* `request` (approve, decline)
   slot |-> NoSlot,              \* `slotRow` (submit), `updatedSlot` (approve)
   oldValues |-> <<>>,           \* <<>> is null, <<r>> is the object r
   allCourseSlots |-> {},        \* `allCourseSlots`
   courseSlotToUpdate |-> NoId,  \* id of `courseSlotToUpdate`
   enrolledStudents |-> {},      \* `studentIds`
   errors |-> 0]                 \* store errors this call has met

\* the answer of a handler activation: what was asked, the HTTP status, the
\* await the handler answered after, and the ids of the listed requests
Response(call, status) ==
  [op |-> call.op, user |-> call.user, requestId |-> call.requestId,
   slotId |-> call.slotId, body |-> call.body,
   declineReason |-> call.declineReason, status |-> status,
   errors |-> call.errors, pc |-> call.pc, requests |-> call.requests]

NoResponse == Response(NewCall("none", NULL, NoId, NoBody, NULL, "none"), 0)

Remove(s, c) == SubSeq(s, 1, c - 1) \o SubSeq(s, c + 1, Len(s))

\* res.status(status).json(...): the handler returns, its locals are gone
Respond(c, call, status) ==
  /\ calls' = Remove(calls, c)
  /\ last' = Response(call, status)

\* the handler suspends at its next await
Continue(c, call) ==
  /\ calls' = [calls EXCEPT ![c] = call]
  /\ UNCHANGED last

\* a new handler activation
Start(call) ==
  /\ budget > 0
  /\ budget' = budget - 1
  /\ calls' = Append(calls, call)
  /\ UNCHANGED last

\* a middleware answers and the handler is never entered
Refuse(call, status) ==
  /\ budget > 0
  /\ budget' = budget - 1
  /\ last' = Response([call EXCEPT !.pc = "start"], status)
  /\ UNCHANGED calls

Met(call, err) == [call EXCEPT !.errors = IF err THEN @ + 1 ELSE @]

At(c, pc) == c \in 1..Len(calls) /\ calls[c].pc = pc

\* ------------------------------------------------------------------ store
\* the select without its teacher_id filter
SelectOwnedSlot_AnyOwner(slotId, user) ==
  IF slotId \in DOMAIN teacher_schedule_slots
  THEN teacher_schedule_slots[slotId] ELSE NoSlot

\* .from("teacher_schedule_slots").eq("id", slotId).eq("teacher_id", user)
SelectOwnedSlot(slotId, user) ==
  IF slotId \in DOMAIN teacher_schedule_slots
     /\ teacher_schedule_slots[slotId].teacher_id = user
  THEN teacher_schedule_slots[slotId] ELSE NoSlot

\* the select without its status filter
SelectPendingRequest_AnyStatus(requestId) ==
  IF requestId \in 1..Len(schedule_change_requests)
  THEN schedule_change_requests[requestId] ELSE NoRequest

\* .from("schedule_change_requests").eq("id", id).eq("status", "pending")
SelectPendingRequest(requestId) ==
  IF requestId \in 1..Len(schedule_change_requests)
     /\ schedule_change_requests[requestId].status = "pending"
  THEN schedule_change_requests[requestId] ELSE NoRequest

\* .from("course_schedule_slots").eq("course_id", c).eq("teacher_id", t)
\* the read without its teacher filter
SelectCourseSlots_AnyTeacher(courseId, teacherId) ==
  {Candidate(course_schedule_slots[i]) :
     i \in {j \in 1..Len(course_schedule_slots) :
              course_schedule_slots[j].course_id = courseId}}

SelectCourseSlots(courseId, teacherId) ==
  {Candidate(r) : r \in {x \in SeqToSet(course_schedule_slots) :
                          x.course_id = courseId /\ x.teacher_id = teacherId}}

\* .from("course_students").select("student_id").eq("course_id", c)
SelectEnrolled(courseId) ==
  {e.student_id : e \in {x \in course_students : x.course_id = courseId}}

\* ---------------------------------------------- POST /timetable/request-change
\* `if (!slotId || !reason)`
SubmitInvalid(body) == body.slotId = NoId \/ ~Truthy(body.reason)

\* `requestData` with the requested values taken as the snapshot
SubmitRequestData_Requested(user, body, slotRow) ==
  [NoRequest EXCEPT
     !.slot_id = body.slotId,
     !.teacher_id = user,
     !.course_id = OrNull(slotRow.course_id),
     !.current_day_of_week = OrNull(body.requestedDayOfWeek),
     !.current_start_time = OrNull(body.requestedStartTime),
     !.current_end_time = OrNull(body.requestedEndTime),
     !.requested_day_of_week = OrNull(body.requestedDayOfWeek),
     !.requested_start_time = OrNull(body.requestedStartTime),
     !.requested_end_time = OrNull(body.requestedEndTime),
     !.reason = body.reason,
     !.status = "pending"]

\* `requestData`
SubmitRequestData(user, body, slotRow) ==
  [NoRequest EXCEPT
     !.slot_id = body.slotId,
     !.teacher_id = user,
     !.course_id = OrNull(slotRow.course_id),
     !.current_day_of_week = slotRow.day_of_week,
     !.current_start_time = slotRow.start_time,
     !.current_end_time = slotRow.end_time,
     !.requested_day_of_week = OrNull(body.requestedDayOfWeek),
     !.requested_start_time = OrNull(body.requestedStartTime),
     !.requested_end_time = OrNull(body.requestedEndTime),
     !.reason = body.reason,
     !.status = "pending"]

\* .insert(row): the store assigns the id
InsertRow(table, row) == Append(table, [row EXCEPT !.id = Len(table) + 1])

\* bodies a teacher may send
SubmitBodies ==
  { Body(1, "Wed", "14:00", "15:00", "room conflict"),
    Body(1, NULL, NULL, NULL, "please review"),
    Body(1, "Wed", "", NULL, "room conflict"),
    Body(2, "Wed", "14:00", "15:00", "room conflict"),
    Body(3, "Tue", "10:00", "11:00", "room conflict"),
    Body(4, "Wed", "14:00", "15:00", "room conflict"),
    Body(NoId, "Wed", "14:00", "15:00", "room conflict"),
    Body(1, "Wed", "14:00", "15:00", ""),
    Body(1, "Wed", "14:00", "15:00", NULL) }

\* the handler up to its first await
SubmitStart ==
  \E user \in Teachers, body \in SubmitBodies :
    LET call == NewCall("submit", user, NoId, body, NULL, "sub_fetch") IN
    /\ budget > 0
    /\ budget' = budget - 1
    /\ IF SubmitInvalid(body)
       THEN /\ last' = Response([call EXCEPT !.pc = "start"], 400)
            /\ UNCHANGED calls
       ELSE /\ calls' = Append(calls, call)
            /\ UNCHANGED last
    /\ UNCHANGED <<tables, events, faults>>

\* verify the slot belongs to this teacher
SubmitFetch(c) ==
  /\ At(c, "sub_fetch")
  /\ \E err \in ErrChoices :
       LET call == Met(calls[c], err)
           slotRow == SelectOwnedSlot(call.body.slotId, call.user)
       IN /\ Bump(err)
          /\ IF err THEN Respond(c, call, 500)
             ELSE IF slotRow = NoSlot THEN Respond(c, call, 404)
             ELSE Continue(c, [call EXCEPT !.slot = slotRow,
                                           !.pc = "sub_insert"])
  /\ UNCHANGED <<tables, events, budget>>

\* the insert followed by a notification row for an admin
SubmitInsert_Notifies(c) ==
  /\ At(c, "sub_insert")
  /\ \E err \in ErrChoices :
       LET call == Met(calls[c], err) IN
       /\ Bump(err)
       /\ IF err
          THEN /\ Respond(c, call, 500)
               /\ UNCHANGED <<schedule_change_requests, events,
                              notifications>>
          ELSE /\ schedule_change_requests' =
                    InsertRow(schedule_change_requests,
                              SubmitRequestData(call.user, call.body, call.slot))
               /\ notifications' =
                    Append(notifications,
                      Notification("A1", call.user, "Schedule Change Request",
                                   "custom", call.slot.course_id))
               /\ events' = Append(events,
                    Event("admin-notifications-refresh", call.user, NoId, NULL,
                          "schedule_change_request"))
               /\ Respond(c, call, 200)
  /\ UNCHANGED <<teacher_schedule_slots, course_schedule_slots,
                 course_students, budget>>

\* create the request row, emit, answer
SubmitInsert(c) ==
  /\ At(c, "sub_insert")
  /\ \E err \in ErrChoices :
       LET call == Met(calls[c], err) IN
       /\ Bump(err)
       /\ IF err
          THEN /\ Respond(c, call, 500)
               /\ UNCHANGED <<schedule_change_requests, events>>
          ELSE /\ schedule_change_requests' =
                    InsertRow(schedule_change_requests,
                              SubmitRequestData(call.user, call.body, call.slot))
               /\ events' = Append(events,
                    Event("admin-notifications-refresh", call.user, NoId, NULL,
                          "schedule_change_request"))
               /\ Respond(c, call, 200)
  /\ UNCHANGED <<teacher_schedule_slots, course_schedule_slots,
                 notifications, course_students, budget>>

\* ------------------------------------------------ syncTeacherSlotToCourseSlot
SameTimes(s, d, st, en) ==
  s.day_of_week = d /\ s.start_time = st /\ s.end_time = en

\* `oldValues && oldValues.day_of_week && oldValues.start_time && ...`
HasOldValues(old) ==
  /\ old # <<>>
  /\ Truthy(old[1].day_of_week)
  /\ Truthy(old[1].start_time)
  /\ Truthy(old[1].end_time)

OldValues(d, st, en) ==
  <<[day_of_week |-> d, start_time |-> st, end_time |-> en]>>

\* `if (!teacherSlot.course_id || !teacherSlot.teacher_id) return`
SyncSkips(slot) == ~Truthy(slot.course_id) \/ ~Truthy(slot.teacher_id)

Plan(kind, id) == [kind |-> kind, id |-> id]

\* a Synchronizer that never looks for the old row
SyncPlans_InsertOnly(all, slot, old) ==
  IF \E s \in all : SameTimes(s, slot.day_of_week, slot.start_time,
                              slot.end_time)
  THEN {Plan("skip", NoId)}
  ELSE {Plan("insert", NoId)}

\* a Synchronizer that does not test for a row with the new values
SyncPlans_Blind(all, slot, old) ==
  IF HasOldValues(old)
  THEN LET exactOld == {s \in all : SameTimes(s, old[1].day_of_week,
                                  old[1].start_time, old[1].end_time)}
       IN IF exactOld # {} THEN {Plan("update", s.id) : s \in exactOld}
          ELSE IF Cardinality(all) = 1
               THEN {Plan("update", s.id) : s \in all}
          ELSE {Plan("insert", NoId)}
  ELSE IF Cardinality(all) = 1 THEN {Plan("update", s.id) : s \in all}
       ELSE {Plan("insert", NoId)}

\* a Synchronizer without the sole-candidate fallback of lines 2595-2599
SyncPlans_NoFallback(all, slot, old) ==
  LET matchNew == {s \in all : SameTimes(s, slot.day_of_week,
                                         slot.start_time, slot.end_time)}
      one == Cardinality(all) = 1
      create == IF matchNew # {} THEN {Plan("skip", NoId)}
                ELSE {Plan("insert", NoId)}
  IN IF HasOldValues(old)
     THEN LET exactOld == {s \in all : SameTimes(s, old[1].day_of_week,
                                  old[1].start_time, old[1].end_time)}
              dayOld == {s \in all : s.day_of_week = old[1].day_of_week}
          IN IF exactOld # {} THEN {Plan("update", s.id) : s \in exactOld}
             ELSE IF dayOld # {} /\ one
                  THEN {Plan("update", s.id) : s \in dayOld}
             ELSE create
     ELSE IF matchNew # {} THEN {Plan("skip", NoId)}
          ELSE IF one THEN {Plan("update", s.id) : s \in all}
          ELSE create

\* a Synchronizer that creates a row only when there is no candidate at all
SyncPlans_NoCreate(all, slot, old) ==
  LET matchNew == {s \in all : SameTimes(s, slot.day_of_week,
                                         slot.start_time, slot.end_time)}
      one == Cardinality(all) = 1
      create == IF all # {} THEN {Plan("skip", NoId)}
                ELSE {Plan("insert", NoId)}
  IN IF HasOldValues(old)
     THEN LET exactOld == {s \in all : SameTimes(s, old[1].day_of_week,
                                  old[1].start_time, old[1].end_time)}
              dayOld == {s \in all : s.day_of_week = old[1].day_of_week}
          IN IF exactOld # {} THEN {Plan("update", s.id) : s \in exactOld}
             ELSE IF dayOld # {} /\ one
                  THEN {Plan("update", s.id) : s \in dayOld}
             ELSE IF one THEN {Plan("update", s.id) : s \in all}
             ELSE create
     ELSE IF matchNew # {} THEN {Plan("skip", NoId)}
          ELSE IF one THEN {Plan("update", s.id) : s \in all}
          ELSE create

\* a Synchronizer that takes the only candidate with the old day as its
\* target whatever the number of candidates
SyncPlans_DayUnique(all, slot, old) ==
  LET matchNew == {s \in all : SameTimes(s, slot.day_of_week,
                                         slot.start_time, slot.end_time)}
      one == Cardinality(all) = 1
      create == IF matchNew # {} THEN {Plan("skip", NoId)}
                ELSE {Plan("insert", NoId)}
  IN IF HasOldValues(old)
     THEN LET exactOld == {s \in all : SameTimes(s, old[1].day_of_week,
                                  old[1].start_time, old[1].end_time)}
              dayOld == {s \in all : s.day_of_week = old[1].day_of_week}
          IN IF exactOld # {} THEN {Plan("update", s.id) : s \in exactOld}
             ELSE IF Cardinality(dayOld) = 1
                  THEN {Plan("update", s.id) : s \in dayOld}
             ELSE IF one THEN {Plan("update", s.id) : s \in all}
             ELSE create
     ELSE IF matchNew # {} THEN {Plan("skip", NoId)}
          ELSE IF one THEN {Plan("update", s.id) : s \in all}
          ELSE create

\* What the Synchronizer decides after reading the candidates `all`:
\* update one row, insert a row, or return without writing.  The select has
\* no ORDER BY, so `find` may return any of the rows that satisfy it.
SyncPlans(all, slot, old) ==
  LET matchNew == {s \in all : SameTimes(s, slot.day_of_week,
                                         slot.start_time, slot.end_time)}
      one == Cardinality(all) = 1
      \* lines 2650-2686: no target; create unless the new values exist
      create == IF matchNew # {} THEN {Plan("skip", NoId)}
                ELSE {Plan("insert", NoId)}
  IN IF HasOldValues(old)
     THEN \* Strategy 1
          LET exactOld == {s \in all : SameTimes(s, old[1].day_of_week,
                                  old[1].start_time, old[1].end_time)}
              dayOld == {s \in all : s.day_of_week = old[1].day_of_week}
          IN IF exactOld # {} THEN {Plan("update", s.id) : s \in exactOld}
             ELSE IF dayOld # {} /\ one
                  THEN {Plan("update", s.id) : s \in dayOld}
             ELSE IF one THEN {Plan("update", s.id) : s \in all}
             ELSE create
     ELSE \* no old values
          IF matchNew # {} THEN {Plan("skip", NoId)}
          ELSE IF one THEN {Plan("update", s.id) : s \in all}
          ELSE create

\* `courseSlotUpdate`
CourseSlotUpdate(row, slot) ==
  [row EXCEPT !.day_of_week = slot.day_of_week,
              !.start_time = slot.start_time,
              !.end_time = slot.end_time,
              !.location = OrNull(slot.location),
              !.notes = OrNull(slot.notes)]

\* the insert without its teacher_id
CourseSlotInsert_NoTeacher(slot) ==
  CourseSlot(NoId, slot.course_id, NULL, slot.day_of_week,
             slot.start_time, slot.end_time,
             OrNull(slot.location), OrNull(slot.notes))

\* the row of the insert at lines 2668-2680
CourseSlotInsert(slot) ==
  CourseSlot(NoId, slot.course_id, slot.teacher_id, slot.day_of_week,
             slot.start_time, slot.end_time,
             OrNull(slot.location), OrNull(slot.notes))

\* the Synchronizer returns and its caller resumes
Resume(call) ==
  [call EXCEPT !.pc = IF call.op = "approve" THEN "apr_mark" ELSE "sync_done",
               !.allCourseSlots = {}, !.courseSlotToUpdate = NoId]

\* what the admin slot edit emits once the Synchronizer has returned
EditEvents(slotRow) ==
  << Event("admin-timetable-refresh", slotRow.teacher_id, slotRow.id, NULL,
           "update") >>
  \o IF Truthy(slotRow.course_id)
     THEN << Event("student-timetable-refresh", NULL, NoId,
                   slotRow.course_id, NULL) >>
     ELSE << >>

\* The Synchronizer returns.  Approve goes on to its next await; the admin
\* slot edit has no await left: it emits and answers in the same step.
SyncReturn(c, call) ==
  IF call.op = "edit"
  THEN /\ events' = events \o EditEvents(call.slot)
       /\ Respond(c, call, 200)
  ELSE /\ Continue(c, Resume(call))
       /\ UNCHANGED events

\* `syncTeacherSlotToCourseSlot(teacherSlot, oldValues)` is entered
SyncEnter(call, teacherSlot, oldValues) ==
  [call EXCEPT !.slot = teacherSlot, !.oldValues = oldValues,
               !.pc = IF SyncSkips(teacherSlot)
                      THEN Resume(call).pc ELSE "sync_find"]

\* the read with its error thrown to the caller's catch block
SyncFind_Throws(c) ==
  /\ At(c, "sync_find")
  /\ \E err \in ErrChoices :
       LET call == Met(calls[c], err)
           all == SelectCourseSlots(call.slot.course_id, call.slot.teacher_id)
       IN /\ Bump(err)
          /\ IF err
             THEN /\ Respond(c, call, 500)
                  /\ UNCHANGED events
             ELSE \E plan \in SyncPlans(all, call.slot, call.oldValues) :
                    IF plan.kind = "update"
                    THEN /\ Continue(c, [call EXCEPT
                                           !.allCourseSlots = all,
                                           !.courseSlotToUpdate = plan.id,
                                           !.pc = "sync_update"])
                         /\ UNCHANGED events
                    ELSE IF plan.kind = "insert"
                    THEN /\ Continue(c, [call EXCEPT
                                           !.allCourseSlots = all,
                                           !.pc = "sync_insert"])
                         /\ UNCHANGED events
                    ELSE SyncReturn(c, call)
  /\ UNCHANGED <<tables, budget>>

\* lines 2559-2622: read the candidates and choose
SyncFind(c) ==
  /\ At(c, "sync_find")
  /\ \E err \in ErrChoices :
       LET call == Met(calls[c], err)
           all == SelectCourseSlots(call.slot.course_id, call.slot.teacher_id)
       IN /\ Bump(err)
          /\ IF err
             THEN SyncReturn(c, call)
             ELSE \E plan \in SyncPlans(all, call.slot, call.oldValues) :
                    IF plan.kind = "update"
                    THEN /\ Continue(c, [call EXCEPT
                                           !.allCourseSlots = all,
                                           !.courseSlotToUpdate = plan.id,
                                           !.pc = "sync_update"])
                         /\ UNCHANGED events
                    ELSE IF plan.kind = "insert"
                    THEN /\ Continue(c, [call EXCEPT
                                           !.allCourseSlots = all,
                                           !.pc = "sync_insert"])
                         /\ UNCHANGED events
                    ELSE SyncReturn(c, call)
  /\ UNCHANGED <<tables, budget>>

\* the update without its early return: the creation step follows it
SyncUpdate_ThenInsert(c) ==
  /\ At(c, "sync_update")
  /\ \E err \in ErrChoices :
       LET call == Met(calls[c], err)
           id == call.courseSlotToUpdate
       IN /\ Bump(err)
          /\ course_schedule_slots' =
               IF err \/ id \notin 1..Len(course_schedule_slots)
               THEN course_schedule_slots
               ELSE [course_schedule_slots EXCEPT
                       ![id] = CourseSlotUpdate(@, call.slot)]
          /\ Continue(c, [call EXCEPT !.pc = "sync_insert"])
          /\ UNCHANGED events
  /\ UNCHANGED <<teacher_schedule_slots, schedule_change_requests,
                 notifications, course_students, budget>>

\* lines 2624-2648: update the chosen row
SyncUpdate(c) ==
  /\ At(c, "sync_update")
  /\ \E err \in ErrChoices :
       LET call == Met(calls[c], err)
           id == call.courseSlotToUpdate
       IN /\ Bump(err)
          /\ course_schedule_slots' =
               IF err \/ id \notin 1..Len(course_schedule_slots)
               THEN course_schedule_slots
               ELSE [course_schedule_slots EXCEPT
                       ![id] = CourseSlotUpdate(@, call.slot)]
          /\ SyncReturn(c, call)
  /\ UNCHANGED <<teacher_schedule_slots, schedule_change_requests,
                 notifications, course_students, budget>>

\* lines 2665-2686: create a new course slot
SyncInsert(c) ==
  /\ At(c, "sync_insert")
  /\ \E err \in ErrChoices :
       LET call == Met(calls[c], err) IN
       /\ Bump(err)
       /\ course_schedule_slots' =
            IF err THEN course_schedule_slots
            ELSE InsertRow(course_schedule_slots, CourseSlotInsert(call.slot))
       /\ SyncReturn(c, call)
  /\ UNCHANGED <<teacher_schedule_slots, schedule_change_requests,
                 notifications, course_students, budget>>

\* ------------------------------------- POST /schedule-change/:requestId/approve
\* `updates`: the requested fields that are truthy
ApproveUpdates(request) ==
  {f \in {"day_of_week", "start_time", "end_time"} :
     Truthy(request["requested_" \o f])}

\* an update that writes all three requested columns, truthy or not
ApplyUpdates_AllColumns(slot, request) ==
  [slot EXCEPT !.day_of_week = request.requested_day_of_week,
               !.start_time = request.requested_start_time,
               !.end_time = request.requested_end_time]

\* the teacher slot after `.update(updates)`
ApplyUpdates(slot, request) ==
  [slot EXCEPT
     !.day_of_week = IF Truthy(request.requested_day_of_week)
                     THEN request.requested_day_of_week ELSE @,
     !.start_time = IF Truthy(request.requested_start_time)
                    THEN request.requested_start_time ELSE @,
     !.end_time = IF Truthy(request.requested_end_time)
                  THEN request.requested_end_time ELSE @]

\* .update({status: "approved", ...}).eq("id", requestId)
MarkApproved(table, requestId, user) ==
  IF requestId \in 1..Len(table)
  THEN [table EXCEPT ![requestId] =
          [@ EXCEPT !.status = "approved", !.approved_by = user,
                    !.approved_at = "now"]]
  ELSE table

\* the decline write with the approve handler's column names
MarkDeclined_ApprovedColumns(table, requestId, user, declineReason) ==
  IF requestId \in 1..Len(table)
  THEN [table EXCEPT ![requestId] =
          [@ EXCEPT !.status = "declined", !.approved_by = user,
                    !.approved_at = "now"]]
  ELSE table

\* .update({status: "declined", ...}).eq("id", requestId)
MarkDeclined(table, requestId, user, declineReason) ==
  IF requestId \in 1..Len(table)
  THEN [table EXCEPT ![requestId] =
          [@ EXCEPT !.status = "declined", !.declined_by = user,
                    !.declined_at = "now",
                    !.declined_reason = OrNull(declineReason)]]
  ELSE table

\* ids an admin may put in the path: every stored request and one unknown
RequestIdChoices == 1..(Len(schedule_change_requests) + 1)

\* lines 6709-6731
ApproveEvents(request) ==
  << Event("schedule-updated", request.teacher_id, request.slot_id,
           request.course_id, NULL),
     Event("teacher-notifications-refresh", request.teacher_id, NoId,
           NULL, NULL),
     Event("admin-notifications-refresh", NULL, NoId, NULL,
           "schedule_change_approved") >>
  \o IF Truthy(request.course_id)
     THEN << Event("student-timetable-refresh", NULL, NoId,
                   request.course_id, NULL),
             Event("student-notifications-refresh", NULL, NoId,
                   request.course_id, NULL) >>
     ELSE << >>

\* protect, requireAdminRole, then the handler up to its first await
ApproveBy(user) ==
  /\ \E requestId \in RequestIdChoices :
       LET call == NewCall("approve", user, requestId, NoBody, NULL,
                           "apr_fetch")
       IN IF requireAdminRole(user) THEN Start(call) ELSE Refuse(call, 403)
  /\ UNCHANGED <<tables, events, faults>>

ApproveStart == \E user \in Admins : ApproveBy(user)

\* lines 6583-6615: fetch the pending request, compute `updates`
ApproveFetch(c) ==
  /\ At(c, "apr_fetch")
  /\ \E err \in ErrChoices :
       LET call == Met(calls[c], err)
           request == SelectPendingRequest(call.requestId)
       IN /\ Bump(err)
          /\ IF err THEN Respond(c, call, 500)
             ELSE IF request = NoRequest THEN Respond(c, call, 404)
             ELSE Continue(c, [call EXCEPT
                       !.request = request,
                       !.pc = IF ApproveUpdates(request) # {}
                              THEN "apr_update" ELSE "apr_mark_only"])
  /\ UNCHANGED <<tables, events, budget>>

\* the slot update with its error logged and not thrown
ApproveUpdateSlot_Swallow(c) ==
  /\ At(c, "apr_update")
  /\ \E err \in ErrChoices :
       LET call == Met(calls[c], err)
           request == call.request
           found == request.slot_id \in DOMAIN teacher_schedule_slots
       IN /\ Bump(err)
          /\ IF err \/ ~found
             THEN /\ Continue(c, [call EXCEPT !.pc = "apr_mark"])
                  /\ UNCHANGED teacher_schedule_slots
             ELSE LET updatedSlot ==
                        ApplyUpdates(teacher_schedule_slots[request.slot_id],
                                     request)
                  IN /\ teacher_schedule_slots' =
                          [teacher_schedule_slots EXCEPT
                             ![request.slot_id] = updatedSlot]
                     /\ Continue(c, SyncEnter(call, updatedSlot,
                                OldValues(request.current_day_of_week,
                                          request.current_start_time,
                                          request.current_end_time)))
  /\ UNCHANGED <<course_schedule_slots, schedule_change_requests,
                 notifications, course_students, events, budget>>

\* the Synchronizer given the values the slot held just before the update
ApproveUpdateSlot_LiveOld(c) ==
  /\ At(c, "apr_update")
  /\ \E err \in ErrChoices :
       LET call == Met(calls[c], err)
           request == call.request
           found == request.slot_id \in DOMAIN teacher_schedule_slots
       IN /\ Bump(err)
          /\ IF err \/ ~found
             THEN /\ Respond(c, call, 500)
                  /\ UNCHANGED teacher_schedule_slots
             ELSE LET held == teacher_schedule_slots[request.slot_id]
                      updatedSlot == ApplyUpdates(held, request)
                  IN /\ teacher_schedule_slots' =
                          [teacher_schedule_slots EXCEPT
                             ![request.slot_id] = updatedSlot]
                     /\ Continue(c, SyncEnter(call, updatedSlot,
                                OldValues(held.day_of_week, held.start_time,
                                          held.end_time)))
  /\ UNCHANGED <<course_schedule_slots, schedule_change_requests,
                 notifications, course_students, events, budget>>

\* the slot update applied only while the slot still has the request's
\* current day, start and end
ApproveUpdateSlot_IfCurrent(c) ==
  /\ At(c, "apr_update")
  /\ \E err \in ErrChoices :
       LET call == Met(calls[c], err)
           request == call.request
           found == request.slot_id \in DOMAIN teacher_schedule_slots
       IN /\ Bump(err)
          /\ IF err \/ ~found
             THEN /\ Respond(c, call, 500)
                  /\ UNCHANGED teacher_schedule_slots
             ELSE LET held == teacher_schedule_slots[request.slot_id]
                      updatedSlot ==
                        IF SameTimes(held, request.current_day_of_week,
                                     request.current_start_time,
                                     request.current_end_time)
                        THEN ApplyUpdates(held, request) ELSE held
                  IN /\ teacher_schedule_slots' =
                          [teacher_schedule_slots EXCEPT
                             ![request.slot_id] = updatedSlot]
                     /\ Continue(c, SyncEnter(call, updatedSlot,
                                OldValues(request.current_day_of_week,
                                          request.current_start_time,
                                          request.current_end_time)))
  /\ UNCHANGED <<course_schedule_slots, schedule_change_requests,
                 notifications, course_students, events, budget>>

\* the request marked approved together with the slot update, before the
\* Synchronizer runs
ApproveUpdateSlot_MarksFirst(c) ==
  /\ At(c, "apr_update")
  /\ \E err \in ErrChoices :
       LET call == Met(calls[c], err)
           request == call.request
           found == request.slot_id \in DOMAIN teacher_schedule_slots
       IN /\ Bump(err)
          /\ IF err \/ ~found
             THEN /\ Respond(c, call, 500)
                  /\ UNCHANGED <<teacher_schedule_slots,
                                 schedule_change_requests>>
             ELSE LET updatedSlot ==
                        ApplyUpdates(teacher_schedule_slots[request.slot_id],
                                     request)
                  IN /\ teacher_schedule_slots' =
                          [teacher_schedule_slots EXCEPT
                             ![request.slot_id] = updatedSlot]
                     /\ schedule_change_requests' =
                          MarkApproved(schedule_change_requests,
                                       call.requestId, call.user)
                     /\ Continue(c, SyncEnter(call, updatedSlot,
                                OldValues(request.current_day_of_week,
                                          request.current_start_time,
                                          request.current_end_time)))
  /\ UNCHANGED <<course_schedule_slots, notifications, course_students,
                 events, budget>>

\* the slot update read back with maybeSingle: no row is no error, the
\* handler goes on to the status write
ApproveUpdateSlot_NoRow(c) ==
  /\ At(c, "apr_update")
  /\ \E err \in ErrChoices :
       LET call == Met(calls[c], err)
           request == call.request
           found == request.slot_id \in DOMAIN teacher_schedule_slots
       IN /\ Bump(err)
          /\ IF err
             THEN /\ Respond(c, call, 500)
                  /\ UNCHANGED teacher_schedule_slots
             ELSE IF ~found
             THEN /\ Continue(c, [call EXCEPT !.pc = "apr_mark"])
                  /\ UNCHANGED teacher_schedule_slots
             ELSE LET updatedSlot ==
                        ApplyUpdates(teacher_schedule_slots[request.slot_id],
                                     request)
                  IN /\ teacher_schedule_slots' =
                          [teacher_schedule_slots EXCEPT
                             ![request.slot_id] = updatedSlot]
                     /\ Continue(c, SyncEnter(call, updatedSlot,
                                OldValues(request.current_day_of_week,
                                          request.current_start_time,
                                          request.current_end_time)))
  /\ UNCHANGED <<course_schedule_slots, schedule_change_requests,
                 notifications, course_students, events, budget>>

\* lines 6616-6635: update the teacher slot, enter the Synchronizer
ApproveUpdateSlot(c) ==
  /\ At(c, "apr_update")
  /\ \E err \in ErrChoices :
       LET call == Met(calls[c], err)
           request == call.request
           found == request.slot_id \in DOMAIN teacher_schedule_slots
       IN /\ Bump(err)
          /\ IF err \/ ~found    \* .single() reports an error on no row
             THEN /\ Respond(c, call, 500)
                  /\ UNCHANGED teacher_schedule_slots
             ELSE LET updatedSlot ==
                        ApplyUpdates(teacher_schedule_slots[request.slot_id],
                                     request)
                  IN /\ teacher_schedule_slots' =
                          [teacher_schedule_slots EXCEPT
                             ![request.slot_id] = updatedSlot]
                     /\ Continue(c, SyncEnter(call, updatedSlot,
                                OldValues(request.current_day_of_week,
                                          request.current_start_time,
                                          request.current_end_time)))
  /\ UNCHANGED <<course_schedule_slots, schedule_change_requests,
                 notifications, course_students, events, budget>>

\* the status write made conditional on the request still being pending,
\* the late caller being answered 404
ApproveMark_Guarded(c) ==
  /\ At(c, "apr_mark")
  /\ LET call == calls[c] IN
     IF schedule_change_requests[call.requestId].status = "pending"
     THEN /\ schedule_change_requests' =
               [schedule_change_requests EXCEPT ![call.requestId] =
                  [@ EXCEPT !.status = "approved", !.approved_by = call.user,
                            !.approved_at = "now"]]
          /\ Continue(c, [call EXCEPT !.pc = "apr_notify"])
     ELSE /\ Respond(c, call, 404)
          /\ UNCHANGED schedule_change_requests
  /\ UNCHANGED <<teacher_schedule_slots, course_schedule_slots,
                 notifications, course_students, events, budget, faults>>

\* lines 6637-6658: mark the request approved (the result is not inspected)
ApproveMark(c) ==
  /\ At(c, "apr_mark")
  /\ \E err \in ErrChoices :
       LET call == Met(calls[c], err) IN
       /\ Bump(err)
       /\ schedule_change_requests' =
            IF err THEN schedule_change_requests
            ELSE MarkApproved(schedule_change_requests, call.requestId,
                              call.user)
       /\ Continue(c, [call EXCEPT !.pc = "apr_notify"])
  /\ UNCHANGED <<teacher_schedule_slots, course_schedule_slots,
                 notifications, course_students, events, budget>>

\* the teacher notification with its error thrown to the handler's catch
ApproveNotifyTeacher_Fatal(c) ==
  /\ At(c, "apr_notify")
  /\ \E err \in ErrChoices :
       LET call == Met(calls[c], err)
           request == call.request
       IN /\ Bump(err)
          /\ notifications' =
               IF err THEN notifications
               ELSE Append(notifications,
                      Notification(request.teacher_id, call.user,
                                   "Schedule Change Approved", "custom",
                                   request.course_id))
          /\ IF err
             THEN /\ Respond(c, call, 500)
                  /\ UNCHANGED events
             ELSE IF Truthy(request.course_id)
             THEN /\ Continue(c, [call EXCEPT !.pc = "apr_students"])
                  /\ UNCHANGED events
             ELSE /\ Respond(c, call, 200)
                  /\ events' = events \o ApproveEvents(request)
  /\ UNCHANGED <<teacher_schedule_slots, course_schedule_slots,
                 schedule_change_requests, course_students, budget>>

\* lines 6660-6674: notify the teacher (the result is not inspected)
ApproveNotifyTeacher(c) ==
  /\ At(c, "apr_notify")
  /\ \E err \in ErrChoices :
       LET call == Met(calls[c], err)
           request == call.request
       IN /\ Bump(err)
          /\ notifications' =
               IF err THEN notifications
               ELSE Append(notifications,
                      Notification(request.teacher_id, call.user,
                                   "Schedule Change Approved", "custom",
                                   request.course_id))
          /\ IF Truthy(request.course_id)
             THEN /\ Continue(c, [call EXCEPT !.pc = "apr_students"])
                  /\ UNCHANGED events
             ELSE /\ Respond(c, call, 200)
                  /\ events' = events \o ApproveEvents(request)
  /\ UNCHANGED <<teacher_schedule_slots, course_schedule_slots,
                 schedule_change_requests, course_students, budget>>

\* lines 6675-6681: read the enrolled students
ApproveFetchStudents(c) ==
  /\ At(c, "apr_students")
  /\ \E err \in ErrChoices :
       LET call == Met(calls[c], err)
           studentIds == SelectEnrolled(call.request.course_id)
       IN /\ Bump(err)
          /\ IF ~err /\ studentIds # {}
             THEN /\ Continue(c, [call EXCEPT
                                    !.enrolledStudents = studentIds,
                                    !.pc = "apr_notify_students"])
                  /\ UNCHANGED events
             ELSE /\ Respond(c, call, 200)
                  /\ events' = events \o ApproveEvents(call.request)
  /\ UNCHANGED <<tables, budget>>

\* `studentNotifications`
StudentNotifications(studentIds, sender, courseId) ==
  LET ids == SetToSeq(studentIds)
  IN [i \in 1..Len(ids) |->
        Notification(ids[i], sender, "Class Schedule Changed", "course",
                     courseId)]

\* lines 6697-6736: notify the students, emit, answer
ApproveNotifyStudents(c) ==
  /\ At(c, "apr_notify_students")
  /\ \E err \in ErrChoices :
       LET call == Met(calls[c], err) IN
       /\ Bump(err)
       /\ notifications' =
            IF err THEN notifications
            ELSE notifications \o
                 StudentNotifications(call.enrolledStudents, call.user,
                                      call.request.course_id)
       /\ Respond(c, call, 200)
       /\ events' = events \o ApproveEvents(call.request)
  /\ UNCHANGED <<teacher_schedule_slots, course_schedule_slots,
                 schedule_change_requests, course_students, budget>>

\* lines 6738-6746: no requested field, just mark the request approved
ApproveMarkOnly(c) ==
  /\ At(c, "apr_mark_only")
  /\ \E err \in ErrChoices :
       LET call == Met(calls[c], err) IN
       /\ Bump(err)
       /\ schedule_change_requests' =
            IF err THEN schedule_change_requests
            ELSE MarkApproved(schedule_change_requests, call.requestId,
                              call.user)
       /\ Continue(c, [call EXCEPT !.pc = "apr_notify_only"])
  /\ UNCHANGED <<teacher_schedule_slots, course_schedule_slots,
                 notifications, course_students, events, budget>>

\* the else branch publishing the events of the slot-changing branch
ApproveNotifyOnly_SlotEvents(c) ==
  /\ At(c, "apr_notify_only")
  /\ \E err \in ErrChoices :
       LET call == Met(calls[c], err)
           request == call.request
       IN /\ Bump(err)
          /\ notifications' =
               IF err THEN notifications
               ELSE Append(notifications,
                      Notification(request.teacher_id, call.user,
                                   "Schedule Change Approved", "custom",
                                   request.course_id))
          /\ events' = events \o ApproveEvents(request)
          /\ Respond(c, call, 200)
  /\ UNCHANGED <<teacher_schedule_slots, course_schedule_slots,
                 schedule_change_requests, course_students, budget>>

\* lines 6748-6770
ApproveNotifyOnly(c) ==
  /\ At(c, "apr_notify_only")
  /\ \E err \in ErrChoices :
       LET call == Met(calls[c], err)
           request == call.request
       IN /\ Bump(err)
          /\ notifications' =
               IF err THEN notifications
               ELSE Append(notifications,
                      Notification(request.teacher_id, call.user,
                                   "Schedule Change Approved", "custom",
                                   request.course_id))
          /\ events' = Append(events,
               Event("teacher-notifications-refresh", request.teacher_id,
                     NoId, NULL, NULL))
          /\ Respond(c, call, 200)
  /\ UNCHANGED <<teacher_schedule_slots, course_schedule_slots,
                 schedule_change_requests, course_students, budget>>

\* ------------------------------------- POST /schedule-change/:requestId/decline
DeclineReasons == {NULL, "instructor unavailable"}

\* protect, requireAdminRole, then the handler up to its first await
DeclineBy(user) ==
  /\ \E requestId \in RequestIdChoices, declineReason \in DeclineReasons :
       LET call == NewCall("decline", user, requestId, NoBody, declineReason,
                           "dec_fetch")
       IN IF requireAdminRole(user) THEN Start(call) ELSE Refuse(call, 403)
  /\ UNCHANGED <<tables, events, faults>>

DeclineStart == \E user \in Admins : DeclineBy(user)

\* lines 6793-6807
DeclineFetch(c) ==
  /\ At(c, "dec_fetch")
  /\ \E err \in ErrChoices :
       LET call == Met(calls[c], err)
           request == SelectPendingRequest(call.requestId)
       IN /\ Bump(err)
          /\ IF err THEN Respond(c, call, 500)
             ELSE IF request = NoRequest THEN Respond(c, call, 404)
             ELSE Continue(c, [call EXCEPT !.request = request,
                                           !.pc = "dec_mark"])
  /\ UNCHANGED <<tables, events, budget>>

\* lines 6809-6818 (the result is not inspected)
DeclineMark(c) ==
  /\ At(c, "dec_mark")
  /\ \E err \in ErrChoices :
       LET call == Met(calls[c], err) IN
       /\ Bump(err)
       /\ schedule_change_requests' =
            IF err THEN schedule_change_requests
            ELSE MarkDeclined(schedule_change_requests, call.requestId,
                              call.user, call.declineReason)
       /\ Continue(c, [call EXCEPT !.pc = "dec_notify"])
  /\ UNCHANGED <<teacher_schedule_slots, course_schedule_slots,
                 notifications, course_students, events, budget>>

\* lines 6820-6845
DeclineNotify(c) ==
  /\ At(c, "dec_notify")
  /\ \E err \in ErrChoices :
       LET call == Met(calls[c], err)
           request == call.request
       IN /\ Bump(err)
          /\ notifications' =
               IF err THEN notifications
               ELSE Append(notifications,
                      Notification(request.teacher_id, call.user,
                                   "Schedule Change Declined", "custom",
                                   request.course_id))
          /\ events' = events \o
               << Event("teacher-notifications-refresh", request.teacher_id,
                        NoId, NULL, NULL),
                  Event("admin-notifications-refresh", NULL, NoId, NULL,
                        "schedule_change_declined") >>
          /\ Respond(c, call, 200)
  /\ UNCHANGED <<teacher_schedule_slots, course_schedule_slots,
                 schedule_change_requests, course_students, budget>>

\* ------------------------------------ PUT /timetable/teachers/slots/:slotId
\* ids of the rows of the courses table
Courses == {"C1", "C2"}

\* The row after `.update(payload)`: day, start and end are in the payload
\* only when sent truthy; course_id, location and notes are always in it,
\* taken from the body or from the row as the handler read it (`existing`).
EditPayload(row, existing, edit) ==
  [row EXCEPT
     !.day_of_week = IF Truthy(edit.dayOfWeek) THEN edit.dayOfWeek ELSE @,
     !.start_time = IF Truthy(edit.startTime) THEN edit.startTime ELSE @,
     !.end_time = IF Truthy(edit.endTime) THEN edit.endTime ELSE @,
     !.course_id = IF Truthy(edit.courseId) THEN edit.courseId
                   ELSE IF edit.courseId = "" THEN NULL
                   ELSE existing.course_id,
     !.location = IF edit.location = UNDEFINED THEN existing.location
                  ELSE edit.location,
     !.notes = IF edit.notes = UNDEFINED THEN existing.notes
               ELSE edit.notes]

\* bodies an admin may send: new times, new location and notes, the course
\* cleared, the course set, an unknown course
EditBodies ==
  { EditBody("Mon", "11:00", "12:00", UNDEFINED, UNDEFINED, UNDEFINED),
    EditBody(UNDEFINED, UNDEFINED, UNDEFINED, UNDEFINED, "R2", ""),
    EditBody("Thu", UNDEFINED, UNDEFINED, "", NULL, UNDEFINED),
    EditBody("Thu", "09:00", "10:00", "C1", UNDEFINED, UNDEFINED),
    EditBody(UNDEFINED, UNDEFINED, UNDEFINED, "C9", UNDEFINED, UNDEFINED) }

\* slot ids an admin may put in the path: the stored slots and one unknown
EditSlotIds == 1..4

\* protect, requireAdminRole, then the handler up to its first await
EditBy(user) ==
  /\ \E slotId \in EditSlotIds, edit \in EditBodies :
       LET call == [NewCall("edit", user, NoId, NoBody, NULL, "edit_fetch")
                      EXCEPT !.slotId = slotId, !.edit = edit]
       IN IF requireAdminRole(user) THEN Start(call) ELSE Refuse(call, 403)
  /\ UNCHANGED <<tables, events, faults>>

\* lines 2706-2719: read the existing slot
EditFetch(c) ==
  /\ At(c, "edit_fetch")
  /\ \E err \in ErrChoices :
       LET call == Met(calls[c], err)
           found == call.slotId \in DOMAIN teacher_schedule_slots
       IN /\ Bump(err)
          /\ IF err THEN Respond(c, call, 500)
             ELSE IF ~found THEN Respond(c, call, 404)
             ELSE Continue(c, [call EXCEPT
                       !.slot = teacher_schedule_slots[call.slotId],
                       !.pc = IF Truthy(call.edit.courseId)
                              THEN "edit_course" ELSE "edit_update"])
  /\ UNCHANGED <<tables, events, budget>>

\* lines 2723-2739: look the course up
EditCourse(c) ==
  /\ At(c, "edit_course")
  /\ \E err \in ErrChoices :
       LET call == Met(calls[c], err) IN
       /\ Bump(err)
       /\ IF err THEN Respond(c, call, 500)
          ELSE IF call.edit.courseId \notin Courses THEN Respond(c, call, 404)
          ELSE Continue(c, [call EXCEPT !.pc = "edit_update"])
  /\ UNCHANGED <<tables, events, budget>>

\* lines 2741-2790: update the slot, enter the Synchronizer with the old
\* day, start and end of `existing`
EditUpdate(c) ==
  /\ At(c, "edit_update")
  /\ \E err \in ErrChoices :
       LET call == Met(calls[c], err)
           existing == call.slot
           found == call.slotId \in DOMAIN teacher_schedule_slots
       IN /\ Bump(err)
          /\ IF err \/ ~found    \* .single() reports an error on no row
             THEN /\ Respond(c, call, 500)
                  /\ UNCHANGED <<teacher_schedule_slots, events>>
             ELSE LET slotRow ==
                        EditPayload(teacher_schedule_slots[call.slotId],
                                    existing, call.edit)
                      entered ==
                        SyncEnter(call, slotRow,
                                  OldValues(existing.day_of_week,
                                            existing.start_time,
                                            existing.end_time))
                  IN /\ teacher_schedule_slots' =
                          [teacher_schedule_slots EXCEPT
                             ![call.slotId] = slotRow]
                     /\ IF SyncSkips(slotRow)
                        THEN SyncReturn(c, entered)
                        ELSE /\ Continue(c, entered)
                             /\ UNCHANGED events
  /\ UNCHANGED <<course_schedule_slots, schedule_change_requests,
                 notifications, course_students, budget>>

\* --------------------------------- DELETE /timetable/teachers/slots/:slotId
\* slot ids an admin puts in the path: a slot with requests and an unknown id
DeleteSlotIds == {1, 4}

\* protect, requireAdminRole, then the handler up to its first await
DeleteBy(user) ==
  /\ \E slotId \in DeleteSlotIds :
       LET call == [NewCall("delete", user, NoId, NoBody, NULL, "del_fetch")
                      EXCEPT !.slotId = slotId]
       IN IF requireAdminRole(user) THEN Start(call) ELSE Refuse(call, 403)
  /\ UNCHANGED <<tables, events, faults>>

\* lines 2828-2841: read the existing slot
DeleteFetch(c) ==
  /\ At(c, "del_fetch")
  /\ \E err \in ErrChoices :
       LET call == Met(calls[c], err)
           found == call.slotId \in DOMAIN teacher_schedule_slots
       IN /\ Bump(err)
          /\ IF err THEN Respond(c, call, 500)
             ELSE IF ~found THEN Respond(c, call, 404)
             ELSE Continue(c, [call EXCEPT
                       !.slot = teacher_schedule_slots[call.slotId],
                       !.pc = "del_remove"])
  /\ UNCHANGED <<tables, events, budget>>

\* the delete with the course-slot rows of the slot's pair removed as well
DeleteRemove_Cascade(c) ==
  /\ At(c, "del_remove")
  /\ \E err \in ErrChoices :
       LET call == Met(calls[c], err)
           existing == call.slot
       IN /\ Bump(err)
          /\ IF err
             THEN /\ Respond(c, call, 500)
                  /\ UNCHANGED <<teacher_schedule_slots,
                                 course_schedule_slots, events>>
             ELSE /\ teacher_schedule_slots' =
                       [k \in DOMAIN teacher_schedule_slots \ {call.slotId}
                          |-> teacher_schedule_slots[k]]
                  /\ course_schedule_slots' =
                       SelectSeq(course_schedule_slots,
                                 LAMBDA r : r.teacher_id # existing.teacher_id)
                  /\ events' = Append(events,
                       Event("admin-timetable-refresh", existing.teacher_id,
                             existing.id, NULL, "delete"))
                  /\ Respond(c, call, 200)
  /\ UNCHANGED <<schedule_change_requests, notifications, course_students,
                 budget>>

\* lines 2843-2860: delete the row, emit, answer
DeleteRemove(c) ==
  /\ At(c, "del_remove")
  /\ \E err \in ErrChoices :
       LET call == Met(calls[c], err)
           existing == call.slot
       IN /\ Bump(err)
          /\ IF err
             THEN /\ Respond(c, call, 500)
                  /\ UNCHANGED <<teacher_schedule_slots, events>>
             ELSE /\ teacher_schedule_slots' =
                       [k \in DOMAIN teacher_schedule_slots \ {call.slotId}
                          |-> teacher_schedule_slots[k]]
                  /\ events' = Append(events,
                       Event("admin-timetable-refresh", existing.teacher_id,
                             existing.id, NULL, "delete"))
                  /\ Respond(c, call, 200)
  /\ UNCHANGED <<course_schedule_slots, schedule_change_requests,
                 notifications, course_students, budget>>

\* ------------------------------------------- GET /schedule-change-requests
\* .from("schedule_change_requests").eq("status", "pending"), as row ids
\* the select without its status filter
SelectPending_All == 1..Len(schedule_change_requests)

SelectPending ==
  {i \in 1..Len(schedule_change_requests) :
     schedule_change_requests[i].status = "pending"}

\* protect, requireAdminRole, then the handler up to its first await
ListBy(user) ==
  /\ LET call == NewCall("list", user, NoId, NoBody, NULL, "list_fetch")
     IN IF requireAdminRole(user) THEN Start(call) ELSE Refuse(call, 403)
  /\ UNCHANGED <<tables, events, faults>>

\* lines 6871-6901: read the pending requests
ListFetch(c) ==
  /\ At(c, "list_fetch")
  /\ \E err \in ErrChoices :
       LET call == Met(calls[c], err)
           requests == SelectPending
       IN /\ Bump(err)
          /\ IF err THEN Respond(c, call, 500)
             ELSE IF requests = {} THEN Respond(c, call, 200)
             ELSE Continue(c, [call EXCEPT !.requests = requests,
                                           !.pc = "list_teachers"])
  /\ UNCHANGED <<tables, events, budget>>

\* lines 6903-6919: look the teachers up (an error leaves the names out).
\* teacher_id and course_id of a request row are never rewritten, so the
\* rows read at list_fetch are identified by their ids.
ListTeachers(c) ==
  /\ At(c, "list_teachers")
  /\ \E err \in ErrChoices :
       LET call == Met(calls[c], err)
           courseIds == {schedule_change_requests[i].course_id :
                           i \in {j \in call.requests :
                                    Truthy(schedule_change_requests[j]
                                             .course_id)}}
       IN /\ Bump(err)
          /\ IF courseIds # {}
             THEN Continue(c, [call EXCEPT !.pc = "list_courses"])
             ELSE Respond(c, call, 200)
  /\ UNCHANGED <<tables, events, budget>>

\* lines 6921-6967: look the courses up, map the rows, answer
ListCourses(c) ==
  /\ At(c, "list_courses")
  /\ \E err \in ErrChoices :
       LET call == Met(calls[c], err) IN
       /\ Bump(err)
       /\ Respond(c, call, 200)
  /\ UNCHANGED <<tables, events, budget>>

\* ------------------------------------------------------------ specification
InitSlot1 == TeacherSlot(1, "T1", "C1", "Tue", "10:00", "11:00", "R1", NULL)
InitSlot2 == TeacherSlot(2, "T2", "C2", "Wed", "14:00", "15:00", "", "")
InitSlot3 == TeacherSlot(3, "T2", NULL, "Wed", "10:00", "11:00", NULL, "own")

\* slot 1 teaches course C1, slot 2 course C2, slot 3 is teacher-private
InitTeacherSlots == (1 :> InitSlot1) @@ (2 :> InitSlot2) @@ (3 :> InitSlot3)

\* course-slot tables the admin timetable CRUD can have left behind
InitCourseTables ==
  { << CourseSlot(1, "C1", "T1", "Tue", "10:00", "11:00", "R1", NULL) >>,
    << CourseSlot(1, "C1", "T1", "Wed", "10:00", "11:00", NULL, NULL),
       CourseSlot(2, "C1", "T1", "Wed", "14:00", "11:00", NULL, NULL) >> }

InitEnrollment == {[course_id |-> "C1", student_id |-> u] : u \in Students}

\* submissions that were accepted before the behaviour starts
Submission(user, body) == [user |-> user, body |-> body]

InitSubmissions ==
  { << >>,
    << Submission("T1", Body(1, "Wed", "14:00", "15:00", "room conflict")) >>,
    << Submission("T1", Body(1, NULL, NULL, NULL, "please review")),
       Submission("T2", Body(2, "Tue", "", NULL, "room conflict")) >>,
    << Submission("T1", Body(1, "Wed", "14:00", "15:00", "room conflict")),
       Submission("T1", Body(1, "Tue", "10:00", "11:00", "same")) >> }

\* the request rows and events those submissions produced
SubmittedRequests(subs) ==
  [i \in 1..Len(subs) |->
     [SubmitRequestData(subs[i].user, subs[i].body,
                        InitTeacherSlots[subs[i].body.slotId])
        EXCEPT !.id = i]]

SubmittedEvents(subs) ==
  [i \in 1..Len(subs) |->
     Event("admin-notifications-refresh", subs[i].user, NoId, NULL,
           "schedule_change_request")]

InitTables(subs) ==
  /\ teacher_schedule_slots = InitTeacherSlots
  /\ course_schedule_slots \in InitCourseTables
  /\ schedule_change_requests = SubmittedRequests(subs)
  /\ notifications = << >>
  /\ course_students = InitEnrollment
  /\ events = SubmittedEvents(subs)
  /\ calls = << >>
  /\ last = NoResponse

\* the store is reliable
Init ==
  /\ \E subs \in InitSubmissions : InitTables(subs)
  /\ budget = MaxCalls
  /\ faults = 0

Next ==
  \/ SubmitStart
  \/ ApproveStart
  \/ DeclineStart
  \/ \E c \in 1..Len(calls) : SubmitFetch(c)
  \/ \E c \in 1..Len(calls) : SubmitInsert(c)
  \/ \E c \in 1..Len(calls) : ApproveFetch(c)
  \/ \E c \in 1..Len(calls) : ApproveUpdateSlot(c)
  \/ \E c \in 1..Len(calls) : SyncFind(c)
  \/ \E c \in 1..Len(calls) : SyncUpdate(c)
  \/ \E c \in 1..Len(calls) : SyncInsert(c)
  \/ \E c \in 1..Len(calls) : ApproveMark(c)
  \/ \E c \in 1..Len(calls) : ApproveNotifyTeacher(c)
  \/ \E c \in 1..Len(calls) : ApproveFetchStudents(c)
  \/ \E c \in 1..Len(calls) : ApproveNotifyStudents(c)
  \/ \E c \in 1..Len(calls) : ApproveMarkOnly(c)
  \/ \E c \in 1..Len(calls) : ApproveNotifyOnly(c)
  \/ \E c \in 1..Len(calls) : DeclineFetch(c)
  \/ \E c \in 1..Len(calls) : DeclineMark(c)
  \/ \E c \in 1..Len(calls) : DeclineNotify(c)

Spec == Init /\ [][Next]_vars

\* ------------------------------------------- scenarios A and B, one call
\* Course C1 has the one course-slot row that mirrors teacher slot 1, course
\* C2 has no course-slot row, any subset of the students is enrolled in C1,
\* and the store may report errors.
ScenarioEnrollments ==
  {{[course_id |-> "C1", student_id |-> u] : u \in U} : U \in SUBSET Students}

ScenarioCourseTable ==
  << CourseSlot(1, "C1", "T1", InitSlot1.day_of_week, InitSlot1.start_time,
                InitSlot1.end_time, "R1", NULL) >>

InitScenario ==
  /\ teacher_schedule_slots = InitTeacherSlots
  /\ course_schedule_slots = ScenarioCourseTable
  /\ \E subs \in InitSubmissions :
       /\ schedule_change_requests = SubmittedRequests(subs)
       /\ events = SubmittedEvents(subs)
  /\ notifications = << >>
  /\ course_students \in ScenarioEnrollments
  /\ calls = << >>
  /\ last = NoResponse
  /\ budget = ScenarioCalls
  /\ faults = MaxFailures

ScenarioSpec == InitScenario /\ [][Next]_vars

\* ------------------------------- the admin list beside the request workflow
\* Teachers submit, one admin approves, declines and lists; the store is
\* reliable.
InitList ==
  /\ \E subs \in InitSubmissions : InitTables(subs)
  /\ course_schedule_slots = ScenarioCourseTable
  /\ budget = MaxCalls
  /\ faults = 0

ListStart == \E user \in Admins : ListBy(user)

ListNext ==
  \/ Next
  \/ ListStart
  \/ \E c \in 1..Len(calls) : ListFetch(c)
  \/ \E c \in 1..Len(calls) : ListTeachers(c)
  \/ \E c \in 1..Len(calls) : ListCourses(c)

ListSpec == InitList /\ [][ListNext]_vars

\* ------------------------------------- admin routes called by any staff role
\* Calls by an admin, a co_admin or a teacher; some requests are pending,
\* each on a slot of its own; course C2 has no course-slot row; the store
\* may report errors.
Staff == {"A1", "A2", "T1"}

AdminSubmissions ==
  {subs \in InitSubmissions :
     /\ Len(subs) > 0
     /\ \A i, j \in 1..Len(subs) :
          i # j => subs[i].body.slotId # subs[j].body.slotId}

InitAdmin ==
  /\ \E subs \in AdminSubmissions : InitTables(subs)
  /\ course_schedule_slots = ScenarioCourseTable
  /\ budget = ScenarioCalls
  /\ faults = MaxFailures

AdminNext ==
  \/ \E user \in Staff : ApproveBy(user)
  \/ \E user \in Staff : DeclineBy(user)
  \/ \E user \in Staff : EditBy(user)
  \/ \E user \in Staff : ListBy(user)
  \/ \E c \in 1..Len(calls) : ApproveFetch(c)
  \/ \E c \in 1..Len(calls) : ApproveUpdateSlot(c)
  \/ \E c \in 1..Len(calls) : SyncFind(c)
  \/ \E c \in 1..Len(calls) : SyncUpdate(c)
  \/ \E c \in 1..Len(calls) : SyncInsert(c)
  \/ \E c \in 1..Len(calls) : ApproveMark(c)
  \/ \E c \in 1..Len(calls) : ApproveNotifyTeacher(c)
  \/ \E c \in 1..Len(calls) : ApproveFetchStudents(c)
  \/ \E c \in 1..Len(calls) : ApproveNotifyStudents(c)
  \/ \E c \in 1..Len(calls) : ApproveMarkOnly(c)
  \/ \E c \in 1..Len(calls) : ApproveNotifyOnly(c)
  \/ \E c \in 1..Len(calls) : DeclineFetch(c)
  \/ \E c \in 1..Len(calls) : DeclineMark(c)
  \/ \E c \in 1..Len(calls) : DeclineNotify(c)
  \/ \E c \in 1..Len(calls) : EditFetch(c)
  \/ \E c \in 1..Len(calls) : EditCourse(c)
  \/ \E c \in 1..Len(calls) : EditUpdate(c)
  \/ \E c \in 1..Len(calls) : ListFetch(c)
  \/ \E c \in 1..Len(calls) : ListTeachers(c)
  \/ \E c \in 1..Len(calls) : ListCourses(c)

AdminSpec == InitAdmin /\ [][AdminNext]_vars

\* Deleting a teacher slot next to approve and decline: a reliable store,
\* pending requests on distinct slots, MaxCalls calls by admins.
InitDelete ==
  /\ \E subs \in AdminSubmissions : InitTables(subs)
  /\ course_schedule_slots = ScenarioCourseTable
  /\ budget = MaxCalls
  /\ faults = 0

DeleteStart == \E user \in Admins : DeleteBy(user)

DeleteNext ==
  \/ DeleteStart
  \/ ApproveStart
  \/ DeclineStart
  \/ \E c \in 1..Len(calls) : DeleteFetch(c)
  \/ \E c \in 1..Len(calls) : DeleteRemove(c)
  \/ \E c \in 1..Len(calls) : ApproveFetch(c)
  \/ \E c \in 1..Len(calls) : ApproveUpdateSlot(c)
  \/ \E c \in 1..Len(calls) : SyncFind(c)
  \/ \E c \in 1..Len(calls) : SyncUpdate(c)
  \/ \E c \in 1..Len(calls) : SyncInsert(c)
  \/ \E c \in 1..Len(calls) : ApproveMark(c)
  \/ \E c \in 1..Len(calls) : ApproveNotifyTeacher(c)
  \/ \E c \in 1..Len(calls) : ApproveFetchStudents(c)
  \/ \E c \in 1..Len(calls) : ApproveNotifyStudents(c)
  \/ \E c \in 1..Len(calls) : ApproveMarkOnly(c)
  \/ \E c \in 1..Len(calls) : ApproveNotifyOnly(c)
  \/ \E c \in 1..Len(calls) : DeclineFetch(c)
  \/ \E c \in 1..Len(calls) : DeclineMark(c)
  \/ \E c \in 1..Len(calls) : DeclineNotify(c)

DeleteSpec == InitDelete /\ [][DeleteNext]_vars

\* Approvals made one after the other: an approve starts only when no call
\* is in flight.  Two pending requests compete for slot 1, or the requests
\* are on distinct slots; the store is reliable.
CompetingSubmissions ==
  << Submission("T1", Body(1, "Wed", "14:00", "15:00", "room conflict")),
     Submission("T1", Body(1, "Fri", "09:00", "10:00", "better room")) >>

InitSequential ==
  /\ \E subs \in AdminSubmissions \cup {CompetingSubmissions} :
       InitTables(subs)
  /\ course_schedule_slots = ScenarioCourseTable
  /\ budget = MaxCalls
  /\ faults = 0

ApproveNext == calls = << >> /\ ApproveStart

SequentialNext ==
  \/ ApproveNext
  \/ \E c \in 1..Len(calls) : ApproveFetch(c)
  \/ \E c \in 1..Len(calls) : ApproveUpdateSlot(c)
  \/ \E c \in 1..Len(calls) : SyncFind(c)
  \/ \E c \in 1..Len(calls) : SyncUpdate(c)
  \/ \E c \in 1..Len(calls) : SyncInsert(c)
  \/ \E c \in 1..Len(calls) : ApproveMark(c)
  \/ \E c \in 1..Len(calls) : ApproveNotifyTeacher(c)
  \/ \E c \in 1..Len(calls) : ApproveFetchStudents(c)
  \/ \E c \in 1..Len(calls) : ApproveNotifyStudents(c)
  \/ \E c \in 1..Len(calls) : ApproveMarkOnly(c)
  \/ \E c \in 1..Len(calls) : ApproveNotifyOnly(c)

SequentialSpec == InitSequential /\ [][SequentialNext]_vars

\* Admin slot edits next to approve and decline: a reliable store, pending
\* requests on distinct slots, MaxCalls calls by admins.  The edits are
\* those of slot 1 that send a new day, start and end.
EditStart ==
  \E user \in Admins :
    /\ EditBy(user)
    /\ Len(calls') > Len(calls)
    /\ LET call == calls'[Len(calls')]
       IN /\ call.slotId = 1
          /\ Truthy(call.edit.dayOfWeek)
          /\ Truthy(call.edit.startTime)
          /\ Truthy(call.edit.endTime)

EditNext ==
  \/ EditStart
  \/ ApproveStart
  \/ DeclineStart
  \/ \E c \in 1..Len(calls) : EditFetch(c)
  \/ \E c \in 1..Len(calls) : EditCourse(c)
  \/ \E c \in 1..Len(calls) : EditUpdate(c)
  \/ \E c \in 1..Len(calls) : ApproveFetch(c)
  \/ \E c \in 1..Len(calls) : ApproveUpdateSlot(c)
  \/ \E c \in 1..Len(calls) : SyncFind(c)
  \/ \E c \in 1..Len(calls) : SyncUpdate(c)
  \/ \E c \in 1..Len(calls) : SyncInsert(c)
  \/ \E c \in 1..Len(calls) : ApproveMark(c)
  \/ \E c \in 1..Len(calls) : ApproveNotifyTeacher(c)
  \/ \E c \in 1..Len(calls) : ApproveFetchStudents(c)
  \/ \E c \in 1..Len(calls) : ApproveNotifyStudents(c)
  \/ \E c \in 1..Len(calls) : ApproveMarkOnly(c)
  \/ \E c \in 1..Len(calls) : ApproveNotifyOnly(c)
  \/ \E c \in 1..Len(calls) : DeclineFetch(c)
  \/ \E c \in 1..Len(calls) : DeclineMark(c)
  \/ \E c \in 1..Len(calls) : DeclineNotify(c)

EditSpec == InitDelete /\ [][EditNext]_vars

\* ---------------------------------------- the Synchronizer on bounded inputs
Locations == {NULL, "", "R2"}

\* teacher slots handed to the Synchronizer
SyncSlots ==
  {TeacherSlot(1, "T1", c, "Wed", "14:00", "15:00", loc, loc) :
     c \in {"C1", NULL}, loc \in Locations}

\* `oldValues`: absent, complete, or incomplete
SyncOlds ==
  {<< >>} \cup {OldValues(d, "10:00", "11:00") : d \in {"Tue", "Mon", NULL}}

\* day/start/end of the course-slot rows of (C1, T1) in the drawn tables
SyncTimes ==
  { <<"Tue", "10:00", "11:00">>, <<"Tue", "09:00", "10:00">>,
    <<"Wed", "14:00", "15:00">>, <<"Fri", "09:00", "10:00">> }

RECURSIVE SyncTablesOf(_)
SyncTablesOf(n) ==
  IF n = 0 THEN {<< >>}
  ELSE LET shorter == SyncTablesOf(n - 1)
       IN shorter \cup
          {Append(t, CourseSlot(Len(t) + 1, "C1", "T1", x[1], x[2], x[3],
                                "R1", NULL)) :
             t \in {u \in shorter : Len(u) = n - 1}, x \in SyncTimes}

SyncTables == SyncTablesOf(MaxCandidates)

SyncCall == NewCall("sync", NULL, NoId, NoBody, NULL, "sync_done")

InitSync ==
  /\ teacher_schedule_slots = InitTeacherSlots
  /\ course_schedule_slots \in SyncTables
  /\ schedule_change_requests = << >>
  /\ notifications = << >>
  /\ course_students = InitEnrollment
  /\ events = << >>
  /\ \E teacherSlot \in SyncSlots, oldValues \in SyncOlds :
       calls = << SyncEnter(SyncCall, teacherSlot, oldValues) >>
  /\ last = NoResponse
  /\ budget = MaxSyncRuns - 1
  /\ faults = 0

\* the Synchronizer is run again on the same arguments
SyncAgain(c) ==
  /\ At(c, "sync_done")
  /\ budget > 0
  /\ budget' = budget - 1
  /\ Continue(c, SyncEnter(calls[c], calls[c].slot, calls[c].oldValues))
  /\ UNCHANGED <<tables, events, faults>>

NextSync ==
  \E c \in 1..Len(calls) :
    \/ SyncFind(c)
    \/ SyncUpdate(c)
    \/ SyncInsert(c)
    \/ SyncAgain(c)

SyncSpec == InitSync /\ [][NextSync]_vars

\* the Synchronizer on tables that also hold rows of other pairs
PairSlots ==
  {TeacherSlot(1, t, c, "Wed", "14:00", "15:00", "R2", "R2") :
     t \in {"T1", NULL}, c \in {"C1", NULL}}

\* course, teacher, day, start and end of the rows in the drawn tables
PairRows ==
  { <<"C1", "T1", "Tue", "10:00", "11:00">>,
    <<"C1", "T1", "Fri", "09:00", "10:00">>,
    <<"C1", "T2", "Tue", "10:00", "11:00">>,
    <<"C2", "T1", "Tue", "10:00", "11:00">> }

RECURSIVE PairTablesOf(_)
PairTablesOf(n) ==
  IF n = 0 THEN {<< >>}
  ELSE LET shorter == PairTablesOf(n - 1)
       IN shorter \cup
          {Append(t, CourseSlot(Len(t) + 1, x[1], x[2], x[3], x[4], x[5],
                                "R1", NULL)) :
             t \in {u \in shorter : Len(u) = n - 1}, x \in PairRows}

PairTables == PairTablesOf(MaxCandidates)

InitPair ==
  /\ teacher_schedule_slots = InitTeacherSlots
  /\ course_schedule_slots \in PairTables
  /\ schedule_change_requests = << >>
  /\ notifications = << >>
  /\ course_students = InitEnrollment
  /\ events = << >>
  /\ \E teacherSlot \in PairSlots, oldValues \in SyncOlds :
       calls = << SyncEnter(SyncCall, teacherSlot, oldValues) >>
  /\ last = NoResponse
  /\ budget = MaxSyncRuns - 1
  /\ faults = 0

PairSpec == InitPair /\ [][NextSync]_vars

\* ------------------------------------------------------------------ claims
\* call c takes the step: it suspends at a new await or answers and leaves
Acts(c) ==
  /\ c \in 1..Len(calls)
  /\ calls' # calls
  /\ Len(calls') <= Len(calls)
  /\ Len(calls') < Len(calls) => calls' = Remove(calls, c)
  /\ Len(calls') = Len(calls) =>
       /\ calls'[c] # calls[c]
       /\ \A d \in 1..Len(calls) : d # c => calls'[d] = calls[d]

\* call c answers with `status` in this step
Answers(c, status) ==
  /\ calls' = Remove(calls, c)
  /\ last'.op = calls[c].op
  /\ last'.requestId = calls[c].requestId
  /\ last'.status = status

\* no store operation reports an error in this step
NoFault == faults' = faults

Stored(requestId) == requestId \in 1..Len(schedule_change_requests)

Terminal(requestId) ==
  /\ Stored(requestId)
  /\ schedule_change_requests[requestId].status \in {"approved", "declined"}

\* C1: an approve or decline call that reads a request whose stored status
\* is already approved or declined answers 404 and changes no table and
\* publishes no event.
C1_ApprovalTerminality ==
  [][\A c \in 1..Len(calls) :
       ( /\ calls[c].pc \in {"apr_fetch", "dec_fetch"}
         /\ Terminal(calls[c].requestId)
         /\ Acts(c) /\ NoFault )
       => /\ Answers(c, 404)
          /\ UNCHANGED <<tables, events>>]_vars

C1_Witness ==
  /\ last.op \in {"approve", "decline"}
  /\ last.status = 404
  /\ Terminal(last.requestId)

\* C2: the status of a stored request only ever changes from pending to
\* approved or from pending to declined, whatever the interleaving.
C2_OneWayStatus ==
  [][\A i \in 1..Len(schedule_change_requests) :
       schedule_change_requests'[i].status # schedule_change_requests[i].status
       => /\ schedule_change_requests[i].status = "pending"
          /\ schedule_change_requests'[i].status \in {"approved", "declined"}]_vars

\* C3: approve calls on one request do not exclude each other.  An approve
\* call that reads the request while it is pending goes on, also when
\* another approve of the same request is in flight, and from then on it
\* applies every effect whatever the stored status has become: it writes
\* the teacher slot, writes status approved, inserts the teacher's
\* notification, and answers 200.
C3_ApproveNotExclusive ==
  [][\A c \in 1..Len(calls) :
       ( calls[c].op = "approve" /\ Acts(c) /\ NoFault )
       => LET call == calls[c]
              request == call.request
          IN /\ ( /\ call.pc = "apr_fetch"
                  /\ Stored(call.requestId)
                  /\ schedule_change_requests[call.requestId].status = "pending" )
                => /\ Len(calls') = Len(calls)
                   /\ calls'[c].pc \in {"apr_update", "apr_mark_only"}
             /\ ( /\ call.pc = "apr_update"
                  /\ request.slot_id \in DOMAIN teacher_schedule_slots )
                => /\ teacher_schedule_slots'[request.slot_id] =
                        ApplyUpdates(teacher_schedule_slots[request.slot_id],
                                     request)
                   /\ Len(calls') = Len(calls)
             /\ call.pc \in {"apr_mark", "apr_mark_only"}
                => /\ schedule_change_requests'[call.requestId].status =
                        "approved"
                   /\ Len(calls') = Len(calls)
             /\ call.pc \in {"apr_notify", "apr_notify_only"}
                => /\ Len(notifications') = Len(notifications) + 1
                   /\ notifications'[Len(notifications')].recipient_id =
                        request.teacher_id
                   /\ notifications'[Len(notifications')].title =
                        "Schedule Change Approved"
             /\ ( call.pc # "apr_fetch" /\ Len(calls') < Len(calls) )
                => Answers(c, 200)]_vars

ApprovedNotificationsFor(teacherId) ==
  {i \in 1..Len(notifications) :
     /\ notifications[i].recipient_id = teacherId
     /\ notifications[i].title = "Schedule Change Approved"}

\* one stored request, two approve calls issued, both have answered, and
\* the teacher holds two approval notifications
C3_Witness ==
  /\ Len(schedule_change_requests) = 1
  /\ schedule_change_requests[1].status = "approved"
  /\ budget = 0
  /\ calls = << >>
  /\ last.op = "approve" /\ last.status = 200
  /\ Cardinality(ApprovedNotificationsFor(
                   schedule_change_requests[1].teacher_id)) = 2

\* exactly one call has been issued, it was `op`, and it has answered 200
\* without meeting a store error
SingleCallDone(op) ==
  /\ budget = ScenarioCalls - 1
  /\ calls = << >>
  /\ last.op = op
  /\ last.status = 200
  /\ last.errors = 0

NotificationsTo(recipient) ==
  {i \in 1..Len(notifications) : notifications[i].recipient_id = recipient}

CourseRowsOf(courseId, teacherId) ==
  {i \in 1..Len(course_schedule_slots) :
     /\ course_schedule_slots[i].course_id = courseId
     /\ course_schedule_slots[i].teacher_id = teacherId}

\* the request is on the (course, teacher) pair whose only course-slot row
\* at the start of ScenarioSpec equals the request's current snapshot
ScenarioMirrored(request) ==
  /\ Len(ScenarioCourseTable) = 1
  /\ request.course_id = ScenarioCourseTable[1].course_id
  /\ request.teacher_id = ScenarioCourseTable[1].teacher_id
  /\ request.current_day_of_week = ScenarioCourseTable[1].day_of_week
  /\ request.current_start_time = ScenarioCourseTable[1].start_time
  /\ request.current_end_time = ScenarioCourseTable[1].end_time

AllRequested(request) ==
  /\ request.requested_day_of_week \notin {NULL, ""}
  /\ request.requested_start_time \notin {NULL, ""}
  /\ request.requested_end_time \notin {NULL, ""}

\* C4 (scenario A): after a single approve, without store error, of a
\* pending request that asks for a new day, start and end and whose (course,
\* teacher) pair has the one course-slot row equal to the current snapshot:
\* the teacher slot and that course-slot row hold the requested day, start
\* and end, no course-slot row was added, the teacher has exactly one
\* notification and so has every student enrolled in the course.
C4_ScenarioA ==
  \A r \in 1..Len(schedule_change_requests) :
    LET request == schedule_change_requests[r]
        slot == teacher_schedule_slots[request.slot_id]
        rows == CourseRowsOf(request.course_id, request.teacher_id)
    IN ( /\ SingleCallDone("approve")
         /\ last.requestId = r
         /\ AllRequested(request)
         /\ ScenarioMirrored(request) )
       => /\ slot.day_of_week = request.requested_day_of_week
          /\ slot.start_time = request.requested_start_time
          /\ slot.end_time = request.requested_end_time
          /\ rows = {1}
          /\ Len(course_schedule_slots) = Len(ScenarioCourseTable)
          /\ course_schedule_slots[1].day_of_week =
               request.requested_day_of_week
          /\ course_schedule_slots[1].start_time =
               request.requested_start_time
          /\ course_schedule_slots[1].end_time = request.requested_end_time
          /\ Cardinality(NotificationsTo(request.teacher_id)) = 1
          /\ \A e \in course_students :
               e.course_id = request.course_id
               => Cardinality(NotificationsTo(e.student_id)) = 1

C4_Witness ==
  /\ SingleCallDone("approve")
  /\ Stored(last.requestId)
  /\ AllRequested(schedule_change_requests[last.requestId])
  /\ ScenarioMirrored(schedule_change_requests[last.requestId])
  /\ Cardinality(course_students) = 2
  /\ Len(notifications) = 3

\* C5 (scenario B): after a single decline, without store error, of a
\* pending request: the request is declined with declined_by, declined_at
\* and declined_reason, the notifications table holds exactly one row and it
\* is addressed to the requesting teacher, and no teacher-slot or course-slot
\* row has changed.
C5_ScenarioB ==
  SingleCallDone("decline")
  => /\ Stored(last.requestId)
     /\ LET request == schedule_change_requests[last.requestId]
        IN /\ request.status = "declined"
           /\ request.declined_by = last.user
           /\ request.declined_at # NULL
           /\ request.declined_reason =
                (IF last.declineReason \in {NULL, ""}
                 THEN NULL ELSE last.declineReason)
           /\ request.approved_by = NULL
           /\ Len(notifications) = 1
           /\ notifications[1].recipient_id = request.teacher_id
           /\ notifications[1].title = "Schedule Change Declined"
           /\ notifications[1].recipient_id \notin Students
     /\ teacher_schedule_slots = InitTeacherSlots
     /\ course_schedule_slots = ScenarioCourseTable

C5_Witness ==
  /\ SingleCallDone("decline")
  /\ last.declineReason = "instructor unavailable"
  /\ Len(notifications) = 1

\* C6: the row submit creates is pending, carries the slot id and teacher
\* of the call, and its current day, start and end are those of the
\* caller's teacher slot as the handler read it, whatever is requested.
\* Request rows are created by nothing else.
C6_SubmitSnapshot ==
  [][/\ \A c \in 1..Len(calls) :
          ( calls[c].op = "submit" /\ Acts(c) /\ NoFault )
          => LET call == calls[c]
                 n == Len(schedule_change_requests) + 1
             IN /\ ( call.pc = "sub_fetch" /\ Len(calls') = Len(calls) )
                   => /\ call.body.slotId \in DOMAIN teacher_schedule_slots
                      /\ calls'[c].slot =
                           teacher_schedule_slots[call.body.slotId]
                      /\ calls'[c].slot.teacher_id = call.user
                /\ call.pc = "sub_insert"
                   => /\ Len(schedule_change_requests') = n
                      /\ schedule_change_requests'[n].status = "pending"
                      /\ schedule_change_requests'[n].slot_id =
                           call.body.slotId
                      /\ schedule_change_requests'[n].teacher_id = call.user
                      /\ schedule_change_requests'[n].current_day_of_week =
                           call.slot.day_of_week
                      /\ schedule_change_requests'[n].current_start_time =
                           call.slot.start_time
                      /\ schedule_change_requests'[n].current_end_time =
                           call.slot.end_time
                      /\ Answers(c, 200)
     /\ Len(schedule_change_requests') # Len(schedule_change_requests)
        => \E c \in 1..Len(calls) :
             calls[c].op = "submit" /\ calls[c].pc = "sub_insert" /\ Acts(c)
    ]_vars

\* a submit has answered 200 and its row asks for a day other than the
\* one it snapshotted
C6_Witness ==
  /\ last.op = "submit" /\ last.status = 200
  /\ Len(schedule_change_requests) > 0
  /\ LET request == schedule_change_requests[Len(schedule_change_requests)]
     IN /\ request.slot_id = last.body.slotId
        /\ request.requested_day_of_week # NULL
        /\ request.requested_day_of_week # request.current_day_of_week
        /\ request.current_day_of_week =
             teacher_schedule_slots[request.slot_id].day_of_week

\* C7: a submit whose body lacks slotId or reason answers 400, a submit
\* whose slotId is not a teacher slot of the caller answers 404, and neither
\* inserts a request row (nor changes any other table).
C7_SubmitRejects ==
  [][/\ budget' < budget
        => /\ calls' = calls
              => /\ last'.op = "submit"
                 /\ last'.status = 400
                 /\ ( last'.body.slotId = NoId
                      \/ last'.body.reason \in {NULL, ""} )
                 /\ UNCHANGED tables
           /\ ( /\ Len(calls') > Len(calls)
                /\ calls'[Len(calls')].op = "submit" )
              => /\ calls'[Len(calls')].body.slotId # NoId
                 /\ calls'[Len(calls')].body.reason \notin {NULL, ""}
     /\ \A c \in 1..Len(calls) :
          ( /\ calls[c].op = "submit" /\ calls[c].pc = "sub_fetch"
            /\ Acts(c) /\ NoFault
            /\ ( calls[c].body.slotId \notin DOMAIN teacher_schedule_slots
                 \/ teacher_schedule_slots[calls[c].body.slotId].teacher_id
                      # calls[c].user ) )
          => /\ Answers(c, 404)
             /\ UNCHANGED tables
    ]_vars

\* a submit on another teacher's slot has answered 404
C7_Witness ==
  /\ last.op = "submit" /\ last.status = 404
  /\ last.body.slotId \in DOMAIN teacher_schedule_slots
  /\ teacher_schedule_slots[last.body.slotId].teacher_id # last.user

\* ---------------------------------------------- claims on the Synchronizer
\* a complete old snapshot was supplied
CompleteOld(old) ==
  /\ Len(old) = 1
  /\ old[1].day_of_week \notin {NULL, ""}
  /\ old[1].start_time \notin {NULL, ""}
  /\ old[1].end_time \notin {NULL, ""}

\* the stored course-slot rows of the teacher slot's (course, teacher) pair
StoredCandidates(slot) == CourseRowsOf(slot.course_id, slot.teacher_id)

HasTimesOf(row, slot) ==
  /\ row.day_of_week = slot.day_of_week
  /\ row.start_time = slot.start_time
  /\ row.end_time = slot.end_time

\* the Synchronizer returns to its caller without a write pending
Returns(c) ==
  /\ Len(calls') = Len(calls)
  /\ calls'[c].pc \notin {"sync_find", "sync_update", "sync_insert"}

\* C8 (P1): run with no old snapshot while some candidate of the (course,
\* teacher) pair has the new day, start and end, the Synchronizer returns
\* after its read: it updates no row and inserts no row, however many
\* candidates there are.  The table it leaves satisfies the same condition,
\* so a second run leaves the same table.
C8_ExactMatchNoOp ==
  [][\A c \in 1..Len(calls) :
       ( /\ calls[c].pc = "sync_find"
         /\ calls[c].oldValues = << >>
         /\ \E i \in StoredCandidates(calls[c].slot) :
              HasTimesOf(course_schedule_slots[i], calls[c].slot)
         /\ Acts(c) /\ NoFault )
       => /\ Returns(c)
          /\ UNCHANGED tables]_vars

\* the second run has returned; two candidates, one with the new values
C8_Witness ==
  /\ Len(calls) = 1
  /\ calls[1].pc = "sync_done"
  /\ calls[1].oldValues = << >>
  /\ budget = MaxSyncRuns - 2
  /\ Cardinality(StoredCandidates(calls[1].slot)) = 2
  /\ \E i \in StoredCandidates(calls[1].slot) :
       HasTimesOf(course_schedule_slots[i], calls[1].slot)
  /\ \E i \in StoredCandidates(calls[1].slot) :
       ~HasTimesOf(course_schedule_slots[i], calls[1].slot)

\* the case of C9 as the Synchronizer sees it after its read: a complete old
\* snapshot and a sole candidate that has another day than the old one
SoleNoMatch(all, old) ==
  /\ CompleteOld(old)
  /\ Cardinality(all) = 1
  /\ \A s \in all : s.day_of_week # old[1].day_of_week

Stored_(x) == IF x \in {NULL, ""} THEN NULL ELSE x

AmbiguousNoMatch(all, old) ==
  /\ CompleteOld(old)
  /\ Cardinality(all) >= 2
  /\ \A s \in all : s.day_of_week # old[1].day_of_week

\* C10 (P3) as stated: in that case the Synchronizer inserts no row and
\* updates no row.
C10_Original ==
  [][\A c \in 1..Len(calls) :
       ( /\ calls[c].pc \in {"sync_update", "sync_insert"}
         /\ AmbiguousNoMatch(calls[c].allCourseSlots, calls[c].oldValues)
         /\ Acts(c) /\ NoFault )
       => course_schedule_slots' = course_schedule_slots]_vars

\* C10 (P3) amended: in that case the Synchronizer updates no existing row;
\* when some candidate already has the new day, start and end it writes
\* nothing, and otherwise it inserts one row with the teacher slot's course,
\* teacher, new day, start and end.
C10_AmbiguousCreates ==
  [][\A c \in 1..Len(calls) :
       LET call == calls[c]
           rows == StoredCandidates(call.slot)
           n == Len(course_schedule_slots) + 1
       IN /\ ( /\ call.pc = "sync_find"
               /\ CompleteOld(call.oldValues)
               /\ Cardinality(rows) >= 2
               /\ \A i \in rows : course_schedule_slots[i].day_of_week
                                    # call.oldValues[1].day_of_week
               /\ Acts(c) /\ NoFault )
             => /\ UNCHANGED tables
                /\ IF \E i \in rows :
                        HasTimesOf(course_schedule_slots[i], call.slot)
                   THEN Returns(c)
                   ELSE /\ Len(calls') = Len(calls)
                        /\ calls'[c].pc = "sync_insert"
          /\ ( /\ call.pc \in {"sync_update", "sync_insert"}
               /\ AmbiguousNoMatch(call.allCourseSlots, call.oldValues)
               /\ Acts(c) /\ NoFault )
             => /\ call.pc = "sync_insert"
                /\ Len(course_schedule_slots') = n
                /\ \A i \in 1..Len(course_schedule_slots) :
                     course_schedule_slots'[i] = course_schedule_slots[i]
                /\ HasTimesOf(course_schedule_slots'[n], call.slot)
                /\ course_schedule_slots'[n].course_id = call.slot.course_id
                /\ course_schedule_slots'[n].teacher_id = call.slot.teacher_id
                /\ Returns(c)]_vars

\* two candidates without the old day are still there, a third row with the
\* new values has been added
C10_Witness ==
  /\ Len(calls) = 1
  /\ calls[1].pc = "sync_done"
  /\ CompleteOld(calls[1].oldValues)
  /\ Len(course_schedule_slots) = 3
  /\ \A i \in 1..2 :
       /\ course_schedule_slots[i].day_of_week
            # calls[1].oldValues[1].day_of_week
       /\ ~HasTimesOf(course_schedule_slots[i], calls[1].slot)
       /\ course_schedule_slots[i].location = "R1"
  /\ HasTimesOf(course_schedule_slots[3], calls[1].slot)

\* C12 (mirror invariant): whenever a Synchronizer run for a teacher slot with
\* a course and a teacher returns without a store error, some course-slot
\* row of that (course, teacher) pair has the teacher slot's day, start, end,
\* location and notes.  An empty value and null are taken here as the same
\* absent value, so the statement checked is the weaker one.
C12_MirrorInvariant ==
  [][\A c \in 1..Len(calls) :
       ( /\ calls[c].pc \in {"sync_find", "sync_update", "sync_insert"}
         /\ Acts(c) /\ NoFault
         /\ Returns(c) )
       => \E i \in 1..Len(course_schedule_slots') :
            LET row == course_schedule_slots'[i]
                slot == calls[c].slot
            IN /\ row.course_id = slot.course_id
               /\ row.teacher_id = slot.teacher_id
               /\ HasTimesOf(row, slot)
               /\ Stored_(row.location) = Stored_(slot.location)
               /\ Stored_(row.notes) = Stored_(slot.notes)]_vars

\* ------------------------------------------------ claims on the admin routes
\* the step of an admin slot edit in which the Synchronizer, having read no
\* course-slot row for the slot's (course, teacher) pair, inserts
EditInsertsFirstRow(c) ==
  /\ calls[c].op = "edit"
  /\ calls[c].pc = "sync_insert"
  /\ calls[c].allCourseSlots = {}
  /\ Acts(c) /\ NoFault

\* the Synchronizer's read in an admin slot edit finds no row for the pair
EditFindsNoRow(c) ==
  /\ calls[c].op = "edit"
  /\ calls[c].pc = "sync_find"
  /\ StoredCandidates(calls[c].slot) = {}
  /\ Acts(c) /\ NoFault

Fault == faults' < faults

\* C13: a store error inside the Synchronizer (its read, its update or its
\* insert) is never fatal to the caller.  The failed operation writes
\* nothing; approve goes on to mark the request approved and every answer it
\* gives from then on is 200; the admin slot edit answers 200 at once, the
\* teacher slot keeping the update made before the Synchronizer ran.
C13_SyncFailureNotFatal ==
  [][\A c \in 1..Len(calls) :
       LET call == calls[c] IN
       /\ ( /\ call.pc \in {"sync_find", "sync_update", "sync_insert"}
            /\ Acts(c) /\ Fault )
          => /\ UNCHANGED tables
             /\ call.op = "approve"
                => /\ Len(calls') = Len(calls)
                   /\ calls'[c].pc = "apr_mark"
             /\ call.op = "edit"
                => /\ Answers(c, 200)
                   /\ last'.slotId = call.slotId
       /\ ( call.pc = "apr_mark" /\ Acts(c) /\ NoFault )
          => /\ schedule_change_requests'[call.requestId].status = "approved"
             /\ Len(calls') = Len(calls)
             /\ calls'[c].pc = "apr_notify"
       /\ ( /\ call.pc \in {"apr_notify", "apr_students",
                             "apr_notify_students"}
            /\ Acts(c) )
          => /\ UNCHANGED <<teacher_schedule_slots, course_schedule_slots,
                            schedule_change_requests>>
             /\ Len(calls') < Len(calls) => Answers(c, 200)]_vars

\* an approve has answered 200 after one store error: the request is
\* approved and the teacher slot has the requested times, while the one
\* course-slot row of the pair still has the old times
C13_Witness ==
  /\ last.op = "approve" /\ last.status = 200 /\ last.errors = 1
  /\ Stored(last.requestId)
  /\ LET request == schedule_change_requests[last.requestId]
     IN /\ request.status = "approved"
        /\ AllRequested(request)
        /\ ScenarioMirrored(request)
        /\ teacher_schedule_slots[request.slot_id].day_of_week =
             request.requested_day_of_week
        /\ course_schedule_slots = ScenarioCourseTable

\* C14: a store error of the teacher-slot update in approve is a hard
\* failure: the call answers 500 in that step and writes no table (the
\* request keeps its status, no course slot changes, no notification is
\* inserted), publishes no event and never enters the Synchronizer.
C14_SlotUpdateFailureIsHard ==
  [][\A c \in 1..Len(calls) :
       ( calls[c].pc = "apr_update" /\ Acts(c) /\ Fault )
       => /\ Answers(c, 500)
          /\ UNCHANGED <<tables, events>>]_vars

\* an approve has answered 500 at the slot update: the request is pending,
\* the slot has its old times and there is no notification
C14_Witness ==
  /\ last.op = "approve" /\ last.status = 500 /\ last.pc = "apr_update"
  /\ last.errors = 1
  /\ Stored(last.requestId)
  /\ LET request == schedule_change_requests[last.requestId]
     IN /\ request.status = "pending"
        /\ teacher_schedule_slots[request.slot_id] =
             InitTeacherSlots[request.slot_id]
  /\ notifications = << >>

\* C15: a store error of the request status write (status approved in
\* approve, status declined in decline) is a primary-path failure: the call
\* answers 500 in that step and inserts no notification for the teacher.
C15_StatusWriteFailureIsHard ==
  [][\A c \in 1..Len(calls) :
       ( /\ calls[c].pc \in {"apr_mark", "apr_mark_only", "dec_mark"}
         /\ Acts(c) /\ Fault )
       => /\ Answers(c, 500)
          /\ UNCHANGED notifications]_vars

\* C16: a store error of a notification insert in approve or decline (the
\* teacher notification or the student notifications) is not fatal: the
\* step writes no request and no slot, so the status and the slot change
\* are kept, the call goes on and every answer it gives from there is 200;
\* when the failed insert is the call's first store error the request is
\* in a terminal status at that point.
C16_NotificationFailureNotFatal ==
  [][\A c \in 1..Len(calls) :
       LET call == calls[c] IN
       /\ ( /\ call.pc \in {"apr_notify", "apr_notify_students",
                             "apr_notify_only", "dec_notify"}
            /\ Acts(c) /\ Fault )
          => /\ UNCHANGED <<teacher_schedule_slots, course_schedule_slots,
                            schedule_change_requests, notifications>>
             /\ call.errors = 0 => Terminal(call.requestId)
             /\ IF call.pc = "apr_notify" /\ call.request.course_id # NULL
                   /\ call.request.course_id # ""
                THEN /\ Len(calls') = Len(calls)
                     /\ calls'[c].pc = "apr_students"
                ELSE Answers(c, 200)
       /\ ( /\ call.pc \in {"apr_students", "apr_notify_students"}
            /\ Acts(c) )
          => /\ UNCHANGED <<teacher_schedule_slots, course_schedule_slots,
                            schedule_change_requests>>
             /\ Len(calls') < Len(calls) => Answers(c, 200)]_vars

\* an approve has answered 200 although the insert of the teacher's
\* notification failed: the request is approved, the teacher slot has the
\* requested times and the teacher has no notification
C16_Witness ==
  /\ last.op = "approve" /\ last.status = 200 /\ last.errors = 1
  /\ Stored(last.requestId)
  /\ LET request == schedule_change_requests[last.requestId]
     IN /\ request.status = "approved"
        /\ AllRequested(request)
        /\ teacher_schedule_slots[request.slot_id].day_of_week =
             request.requested_day_of_week
        /\ teacher_schedule_slots[request.slot_id].start_time =
             request.requested_start_time
        /\ NotificationsTo(request.teacher_id) = {}
        /\ \E e \in 1..Len(events) :
             events[e].name = "teacher-notifications-refresh"

\* C17: the admin list holds exactly the requests whose status is pending
\* when the handler reads the table: the read keeps every stored request
\* that is pending, so also one just submitted, and none that is approved
\* or declined, and the answer (200) carries the requests of the read.
C17_ListIsPendingOnly ==
  [][\A c \in 1..Len(calls) :
       LET call == calls[c]
           pending == {i \in 1..Len(schedule_change_requests) :
                         schedule_change_requests[i].status = "pending"}
       IN /\ ( call.pc = "list_fetch" /\ Acts(c) /\ NoFault )
             => IF pending = {}
                THEN Answers(c, 200) /\ last'.requests = {}
                ELSE /\ Len(calls') = Len(calls)
                     /\ calls'[c].requests = pending
          /\ ( /\ call.pc \in {"list_teachers", "list_courses"}
               /\ Acts(c) )
             => /\ UNCHANGED tables
                /\ IF Len(calls') < Len(calls)
                   THEN Answers(c, 200) /\ last'.requests = call.requests
                   ELSE calls'[c].requests = call.requests]_vars

\* a list has been answered with a pending request in it while another
\* stored request, approved or declined before the read, is not in it
C17_Witness ==
  /\ last.op = "list" /\ last.status = 200
  /\ last.requests # {}
  /\ \A i \in last.requests :
       Stored(i) /\ schedule_change_requests[i].status = "pending"
  /\ \E i \in 1..Len(schedule_change_requests) :
       Terminal(i) /\ i \notin last.requests

\* C18: a user with role co_admin has read-only access: no step of a call
\* made by a co_admin (approve, decline, slot edit, list) writes a table,
\* and the call's answer to an approve, a decline or an edit is 403.
C18_CoAdminReadOnly ==
  [][\A c \in 1..Len(calls) :
       ( RoleOf(calls[c].user) = "co_admin" /\ Acts(c) )
       => /\ UNCHANGED tables
          /\ calls[c].op \in {"approve", "decline", "edit"}
             => Len(calls') = Len(calls) \/ Answers(c, 403)]_vars

\* the request asks for no day, no start and no end
NoneRequested(request) ==
  /\ request.requested_day_of_week \in {NULL, ""}
  /\ request.requested_start_time \in {NULL, ""}
  /\ request.requested_end_time \in {NULL, ""}

\* C19: approve, without store error, of a pending request with no
\* requested day, start or end: the call goes from its read straight to the
\* status write, never into the slot update or the Synchronizer; the
\* request becomes approved with approved_by and approved_at, exactly one
\* notification is inserted and it is for the requesting teacher, no
\* teacher-slot and no course-slot row is written, and exactly one event
\* is published, teacher-notifications-refresh, before the answer 200.
C19_ApproveWithoutChange ==
  [][\A c \in 1..Len(calls) :
       LET call == calls[c] IN
       /\ ( /\ call.pc = "apr_fetch" /\ Acts(c) /\ NoFault
            /\ Stored(call.requestId)
            /\ schedule_change_requests[call.requestId].status = "pending"
            /\ NoneRequested(schedule_change_requests[call.requestId]) )
          => /\ Len(calls') = Len(calls)
             /\ calls'[c].pc = "apr_mark_only"
             /\ UNCHANGED <<tables, events>>
       /\ ( call.pc = "apr_mark_only" /\ Acts(c) /\ NoFault )
          => /\ NoneRequested(call.request)
             /\ schedule_change_requests' =
                  [schedule_change_requests EXCEPT ![call.requestId] =
                     [@ EXCEPT !.status = "approved",
                               !.approved_by = call.user,
                               !.approved_at = "now"]]
             /\ Len(calls') = Len(calls)
             /\ calls'[c].pc = "apr_notify_only"
             /\ UNCHANGED <<teacher_schedule_slots, course_schedule_slots,
                            notifications, events>>
       /\ ( call.pc = "apr_notify_only" /\ Acts(c) /\ NoFault )
          => /\ Len(notifications') = Len(notifications) + 1
             /\ SubSeq(notifications', 1, Len(notifications)) = notifications
             /\ notifications'[Len(notifications')].recipient_id =
                  call.request.teacher_id
             /\ Len(events') = Len(events) + 1
             /\ SubSeq(events', 1, Len(events)) = events
             /\ events'[Len(events')].name = "teacher-notifications-refresh"
             /\ events'[Len(events')].teacherId = call.request.teacher_id
             /\ UNCHANGED <<teacher_schedule_slots, course_schedule_slots,
                            schedule_change_requests>>
             /\ Answers(c, 200)]_vars

\* a single approve of a request with no requested field has answered 200:
\* the request is approved, the one notification is the teacher's, both
\* slot tables are as they were and the last event, the only one after the
\* submissions' events, is teacher-notifications-refresh
C19_Witness ==
  /\ SingleCallDone("approve")
  /\ last.pc = "apr_notify_only"
  /\ Stored(last.requestId)
  /\ LET request == schedule_change_requests[last.requestId]
     IN /\ NoneRequested(request)
        /\ request.status = "approved"
        /\ request.approved_by = last.user
        /\ Len(notifications) = 1
        /\ notifications[1].recipient_id = request.teacher_id
  /\ teacher_schedule_slots = InitTeacherSlots
  /\ course_schedule_slots = ScenarioCourseTable
  /\ Len(events) = Len(schedule_change_requests) + 1
  /\ events[Len(events)].name = "teacher-notifications-refresh"
  /\ \A e \in 1..(Len(events) - 1) :
       events[e].name = "admin-notifications-refresh"

\* C20 as stated: a submit answered 200 changes no teacher slot, no course
\* slot and no notification row, and publishes no live event.
C20_Original ==
  [][\A c \in 1..Len(calls) :
       ( calls[c].op = "submit" /\ Acts(c) )
       => UNCHANGED <<teacher_schedule_slots, course_schedule_slots,
                      notifications, events>>]_vars

\* C20: a submit writes no teacher slot, no course slot and no notification
\* row in any of its steps; the step that answers 200 adds the one request
\* row and publishes exactly one live event, admin-notifications-refresh
\* with type schedule_change_request and the teacher's id, and no other
\* step of a submit publishes an event or writes a request.
C20_SubmitEffects ==
  [][\A c \in 1..Len(calls) :
       ( calls[c].op = "submit" /\ Acts(c) )
       => /\ UNCHANGED <<teacher_schedule_slots, course_schedule_slots,
                         notifications, course_students>>
          /\ IF Answers(c, 200)
             THEN /\ Len(schedule_change_requests') =
                       Len(schedule_change_requests) + 1
                  /\ SubSeq(schedule_change_requests', 1,
                            Len(schedule_change_requests)) =
                       schedule_change_requests
                  /\ events' = Append(events,
                       [name |-> "admin-notifications-refresh",
                        teacherId |-> calls[c].user, slotId |-> NoId,
                        courseId |-> NULL,
                        type |-> "schedule_change_request"])
             ELSE UNCHANGED <<schedule_change_requests, events>>]_vars

\* a submit has answered 200: its request row is the last one, pending,
\* and the last event is the refresh for the admins with the teacher's id
C20_Witness ==
  /\ last.op = "submit" /\ last.status = 200
  /\ schedule_change_requests # << >>
  /\ schedule_change_requests[Len(schedule_change_requests)].teacher_id =
       last.user
  /\ schedule_change_requests[Len(schedule_change_requests)].status =
       "pending"
  /\ events # << >>
  /\ events[Len(events)].name = "admin-notifications-refresh"
  /\ events[Len(events)].teacherId = last.user
  /\ notifications = << >>
  /\ teacher_schedule_slots = InitTeacherSlots

\* the case of C21 on the stored candidates `rows` of the pair: a complete
\* old snapshot, no candidate equal to it on day, start and end, exactly one
\* candidate with the old day
UniqueDayMatch(rows, old) ==
  /\ CompleteOld(old)
  /\ \A i \in rows :
       ~SameTimes(course_schedule_slots[i], old[1].day_of_week,
                  old[1].start_time, old[1].end_time)
  /\ Cardinality({i \in rows : course_schedule_slots[i].day_of_week =
                                  old[1].day_of_week}) = 1

\* C21 (step 3b) as stated: in that case the one candidate with the old day
\* is the update target, also when other candidates exist, and no row is
\* inserted.
C21_Original ==
  [][\A c \in 1..Len(calls) :
       LET call == calls[c]
           rows == StoredCandidates(call.slot)
       IN ( /\ call.pc = "sync_find"
            /\ UniqueDayMatch(rows, call.oldValues)
            /\ Acts(c) /\ NoFault )
          => /\ Len(calls') = Len(calls)
             /\ calls'[c].pc = "sync_update"
             /\ calls'[c].courseSlotToUpdate \in rows
             /\ course_schedule_slots[calls'[c].courseSlotToUpdate]
                  .day_of_week = call.oldValues[1].day_of_week]_vars

\* C21 (step 3b) amended: the one candidate with the old day is the update
\* target only when it is the sole candidate of the pair; it is then updated
\* to the new day, start and end (an empty location or notes stored as
\* null) and no row is inserted.  When other candidates exist no target is
\* chosen: the Synchronizer writes nothing when some candidate already has
\* the new day, start and end, and otherwise goes on to insert a row.
C21_DayMatchOnlyWhenSole ==
  [][\A c \in 1..Len(calls) :
       LET call == calls[c]
           rows == StoredCandidates(call.slot)
           k == call.courseSlotToUpdate
       IN /\ ( /\ call.pc = "sync_find"
               /\ UniqueDayMatch(rows, call.oldValues)
               /\ Acts(c) /\ NoFault )
             => /\ UNCHANGED tables
                /\ IF Cardinality(rows) = 1
                   THEN /\ Len(calls') = Len(calls)
                        /\ calls'[c].pc = "sync_update"
                        /\ calls'[c].courseSlotToUpdate \in rows
                   ELSE IF \E i \in rows :
                             HasTimesOf(course_schedule_slots[i], call.slot)
                   THEN Returns(c)
                   ELSE /\ Len(calls') = Len(calls)
                        /\ calls'[c].pc = "sync_insert"
          /\ ( /\ call.pc = "sync_update"
               /\ CompleteOld(call.oldValues)
               /\ Cardinality(call.allCourseSlots) = 1
               /\ \A s \in call.allCourseSlots :
                    /\ s.day_of_week = call.oldValues[1].day_of_week
                    /\ ~SameTimes(s, call.oldValues[1].day_of_week,
                                  call.oldValues[1].start_time,
                                  call.oldValues[1].end_time)
               /\ k \in 1..Len(course_schedule_slots)
               /\ Acts(c) /\ NoFault )
             => /\ Len(course_schedule_slots') = Len(course_schedule_slots)
                /\ HasTimesOf(course_schedule_slots'[k], call.slot)
                /\ course_schedule_slots'[k].location =
                     Stored_(call.slot.location)
                /\ course_schedule_slots'[k].notes = Stored_(call.slot.notes)
                /\ \A i \in 1..Len(course_schedule_slots) :
                     i # k => course_schedule_slots'[i] =
                                course_schedule_slots[i]
                /\ Returns(c)]_vars

\* two candidates, one of them with the old day at other times, are still
\* as they were and a third row with the new values has been inserted
C21_Witness ==
  /\ Len(calls) = 1
  /\ calls[1].pc = "sync_done"
  /\ CompleteOld(calls[1].oldValues)
  /\ Len(course_schedule_slots) = 3
  /\ Cardinality({i \in 1..2 : course_schedule_slots[i].day_of_week =
                      calls[1].oldValues[1].day_of_week}) = 1
  /\ \A i \in 1..2 :
       /\ ~SameTimes(course_schedule_slots[i],
                     calls[1].oldValues[1].day_of_week,
                     calls[1].oldValues[1].start_time,
                     calls[1].oldValues[1].end_time)
       /\ ~HasTimesOf(course_schedule_slots[i], calls[1].slot)
       /\ course_schedule_slots[i].location = "R1"
  /\ HasTimesOf(course_schedule_slots[3], calls[1].slot)

\* the rows of the course-slot table whose contents this step changes
ChangedRows ==
  {i \in 1..Len(course_schedule_slots) :
     i > Len(course_schedule_slots') \/
     course_schedule_slots'[i] # course_schedule_slots[i]}

\* C22: a Synchronizer run makes at most one write to course_schedule_slots.
\* Its read writes nothing and leads to the update step, to the insert step
\* or to the return; the update step changes at most one existing row, the
\* chosen target, adds no row and returns; the insert step adds at most one
\* row at the end, changes no existing row and returns.  No step removes a
\* row.
C22_OneWritePerRun ==
  [][\A c \in 1..Len(calls) :
       LET call == calls[c] IN
       /\ ( call.pc = "sync_find" /\ Acts(c) )
          => /\ UNCHANGED tables
             /\ Len(calls') = Len(calls)
                => calls'[c].pc \in {"sync_update", "sync_insert",
                                      "sync_done", "apr_mark"}
       /\ ( call.pc = "sync_update" /\ Acts(c) )
          => /\ Len(course_schedule_slots') = Len(course_schedule_slots)
             /\ ChangedRows \subseteq {call.courseSlotToUpdate}
             /\ Len(calls') = Len(calls) => Returns(c)
       /\ ( call.pc = "sync_insert" /\ Acts(c) )
          => /\ Len(course_schedule_slots') \in
                  {Len(course_schedule_slots),
                   Len(course_schedule_slots) + 1}
             /\ ChangedRows = {}
             /\ Len(calls') = Len(calls) => Returns(c)]_vars

\* a run has returned after its one write and the table has two rows: one
\* has the teacher slot's day, start, end and location, the other has
\* neither and there is no third row
C22_Witness ==
  /\ Len(calls) = 1
  /\ calls[1].pc = "sync_done"
  /\ calls[1].slot.location = "R2"
  /\ Len(course_schedule_slots) = 2
  /\ \E i \in 1..2 :
       /\ HasTimesOf(course_schedule_slots[i], calls[1].slot)
       /\ course_schedule_slots[i].location = "R2"
       /\ course_schedule_slots[3 - i].location = "R1"
       /\ ~HasTimesOf(course_schedule_slots[3 - i], calls[1].slot)

\* the value approve leaves in a slot column: the requested value when one
\* was requested, the value the slot holds otherwise
Approved(requested, held) ==
  IF requested \notin {NULL, ""} THEN requested ELSE held

\* C23 (approve update set): an approve that has read a pending request
\* with some requested day, start or end goes to the slot update, also when
\* the requested values are the slot's own; the update, unless the store
\* reports an error, leaves in each of day, start and end the requested
\* value when there is one and the value held just before otherwise, and
\* changes neither the slot's teacher, course, location and notes nor any
\* other teacher slot; no later step of the approve writes a teacher slot.
C23_ApproveUpdateSet ==
  [][\A c \in 1..Len(calls) :
       LET call == calls[c]
           request == call.request
       IN /\ ( /\ call.pc = "apr_fetch" /\ Acts(c) /\ NoFault
               /\ Stored(call.requestId)
               /\ schedule_change_requests[call.requestId].status = "pending"
               /\ ~NoneRequested(schedule_change_requests[call.requestId]) )
             => /\ Len(calls') = Len(calls)
                /\ calls'[c].pc = "apr_update"
                /\ UNCHANGED tables
          /\ ( /\ call.pc = "apr_update" /\ Acts(c) /\ NoFault
               /\ request.slot_id \in DOMAIN teacher_schedule_slots )
             => LET held == teacher_schedule_slots[request.slot_id]
                IN /\ DOMAIN teacher_schedule_slots' =
                        DOMAIN teacher_schedule_slots
                   /\ teacher_schedule_slots'[request.slot_id] =
                        [id |-> held.id,
                         teacher_id |-> held.teacher_id,
                         course_id |-> held.course_id,
                         day_of_week |->
                           Approved(request.requested_day_of_week,
                                    held.day_of_week),
                         start_time |->
                           Approved(request.requested_start_time,
                                    held.start_time),
                         end_time |->
                           Approved(request.requested_end_time,
                                    held.end_time),
                         location |-> held.location,
                         notes |-> held.notes]
                   /\ \A k \in DOMAIN teacher_schedule_slots :
                        k # request.slot_id
                        => teacher_schedule_slots'[k] =
                             teacher_schedule_slots[k]
          /\ ( /\ call.op = "approve" /\ call.pc # "apr_update"
               /\ Acts(c) )
             => UNCHANGED teacher_schedule_slots]_vars

\* a single approve of a request for a new day only has answered 200: the
\* slot has the requested day and the start and end it had, its teacher,
\* course, location and notes and the other slots are as they were
C23_Witness ==
  /\ SingleCallDone("approve")
  /\ Stored(last.requestId)
  /\ LET request == schedule_change_requests[last.requestId]
         slot == teacher_schedule_slots[request.slot_id]
         held == InitTeacherSlots[request.slot_id]
     IN /\ request.status = "approved"
        /\ request.requested_day_of_week \notin {NULL, "", held.day_of_week}
        /\ request.requested_start_time = NULL
        /\ request.requested_end_time = NULL
        /\ slot = [held EXCEPT
                     !.day_of_week = request.requested_day_of_week]
        /\ \A k \in DOMAIN teacher_schedule_slots :
             k # request.slot_id
             => teacher_schedule_slots[k] = InitTeacherSlots[k]

\* C24: deleting a teacher slot through the admin endpoint removes only
\* that teacher_schedule_slots row: no step of the delete writes a
\* course-slot row, a request or a notification, and its last step, unless
\* the store reports an error, removes the row with the id of the path,
\* leaves every other teacher slot as it was and answers 200.
C24_DeleteRemovesOneRow ==
  [][\A c \in 1..Len(calls) :
       LET call == calls[c] IN
       /\ ( call.op = "delete" /\ Acts(c) )
          => UNCHANGED <<course_schedule_slots, schedule_change_requests,
                         notifications, course_students>>
       /\ ( call.pc = "del_fetch" /\ Acts(c) )
          => UNCHANGED teacher_schedule_slots
       /\ ( call.pc = "del_remove" /\ Acts(c) /\ NoFault )
          => /\ DOMAIN teacher_schedule_slots' =
                  DOMAIN teacher_schedule_slots \ {call.slotId}
             /\ \A k \in DOMAIN teacher_schedule_slots' :
                  teacher_schedule_slots'[k] = teacher_schedule_slots[k]
             /\ Answers(c, 200)]_vars

\* a delete has answered 200: the teacher slot is gone, the course-slot row
\* of its (course, teacher) pair and a pending request on the slot are
\* still stored
C24_Witness ==
  /\ last.op = "delete" /\ last.status = 200
  /\ last.slotId \notin DOMAIN teacher_schedule_slots
  /\ DOMAIN teacher_schedule_slots =
       DOMAIN InitTeacherSlots \ {last.slotId}
  /\ course_schedule_slots = ScenarioCourseTable
  /\ \E i \in 1..Len(course_schedule_slots) :
       /\ course_schedule_slots[i].course_id =
            InitTeacherSlots[last.slotId].course_id
       /\ course_schedule_slots[i].teacher_id =
            InitTeacherSlots[last.slotId].teacher_id
  /\ \E r \in 1..Len(schedule_change_requests) :
       /\ schedule_change_requests[r].slot_id = last.slotId
       /\ schedule_change_requests[r].status = "pending"

\* the columns of a request row that submit writes and nothing else may
Snapshot(request) ==
  [id |-> request.id, slot_id |-> request.slot_id,
   teacher_id |-> request.teacher_id, course_id |-> request.course_id,
   current_day_of_week |-> request.current_day_of_week,
   current_start_time |-> request.current_start_time,
   current_end_time |-> request.current_end_time,
   requested_day_of_week |-> request.requested_day_of_week,
   requested_start_time |-> request.requested_start_time,
   requested_end_time |-> request.requested_end_time,
   reason |-> request.reason]

\* C25: the snapshot of a request is frozen.  No step of an admin slot
\* edit, an approve or a decline removes a request or changes its slot,
\* teacher, course, current day, start and end, requested day, start and
\* end or reason; the status write of approve changes nothing but status,
\* approved_by and approved_at, that of decline nothing but status,
\* declined_by, declined_at and declined_reason; and the old values approve
\* hands to the Synchronizer are the request's current day, start and end,
\* whatever the slot held just before its update.
C25_SnapshotFrozen ==
  [][/\ Len(schedule_change_requests') >= Len(schedule_change_requests)
     /\ \A r \in 1..Len(schedule_change_requests) :
          Snapshot(schedule_change_requests'[r]) =
            Snapshot(schedule_change_requests[r])
     /\ \A c \in 1..Len(calls) :
          LET call == calls[c]
              r == call.requestId
          IN /\ ( call.op = "approve" /\ Acts(c) /\ Stored(r) )
                => schedule_change_requests' =
                     [schedule_change_requests EXCEPT ![r] =
                        [@ EXCEPT
                           !.status = schedule_change_requests'[r].status,
                           !.approved_by =
                              schedule_change_requests'[r].approved_by,
                           !.approved_at =
                              schedule_change_requests'[r].approved_at]]
             /\ ( call.op = "decline" /\ Acts(c) /\ Stored(r) )
                => schedule_change_requests' =
                     [schedule_change_requests EXCEPT ![r] =
                        [@ EXCEPT
                           !.status = schedule_change_requests'[r].status,
                           !.declined_by =
                              schedule_change_requests'[r].declined_by,
                           !.declined_at =
                              schedule_change_requests'[r].declined_at,
                           !.declined_reason =
                              schedule_change_requests'[r].declined_reason]]
             /\ ( call.op = "edit" /\ Acts(c) )
                => UNCHANGED schedule_change_requests
             /\ ( /\ call.pc = "apr_update" /\ Acts(c)
                  /\ Len(calls') = Len(calls) )
                => /\ calls'[c].pc = "sync_find"
                      \/ SyncSkips(calls'[c].slot)
                   /\ calls'[c].oldValues =
                        << [day_of_week |->
                              schedule_change_requests[r].current_day_of_week,
                            start_time |->
                              schedule_change_requests[r].current_start_time,
                            end_time |->
                              schedule_change_requests[r].current_end_time] >>
    ]_vars

\* an approve is in the Synchronizer after an admin edit had moved the slot
\* and its course-slot row to Monday: the teacher slot now has the requested
\* day, the request still has the day of its submission as current day, and
\* that day, not Monday, is the old day the Synchronizer was given
C25_Witness ==
  \E c \in 1..Len(calls) :
    LET call == calls[c] IN
    /\ call.op = "approve" /\ call.pc = "sync_find"
    /\ Stored(call.requestId)
    /\ LET request == schedule_change_requests[call.requestId]
       IN /\ request.current_day_of_week =
               InitTeacherSlots[request.slot_id].day_of_week
          /\ request.current_day_of_week # "Mon"
          /\ call.oldValues[1].day_of_week = request.current_day_of_week
          /\ teacher_schedule_slots[request.slot_id].day_of_week =
               request.requested_day_of_week
          /\ request.status = "pending"
    /\ \E i \in 1..Len(course_schedule_slots) :
         course_schedule_slots[i].day_of_week = "Mon"
    /\ last.op = "edit" /\ last.status = 200

\* an approve in flight has written a slot on behalf of request r
WrittenFor(r) ==
  \E d \in 1..Len(calls) :
    /\ calls[d].op = "approve"
    /\ calls[d].requestId = r
    /\ calls[d].pc \in {"sync_find", "sync_update", "sync_insert",
                         "apr_mark", "apr_notify", "apr_students",
                         "apr_notify_students"}

\* C26: decline never mutates a slot, also under interleaving.  No step of
\* a decline writes a teacher slot or a course slot; a request is marked
\* declined only while it is pending and no approve has written a slot on
\* its behalf; and no approve writes a slot for a request that is declined.
\* Together: a declined request never had a slot written on its behalf.
C26_DeclineNeverMutatesSlot ==
  [][\A c \in 1..Len(calls) :
       LET call == calls[c]
           r == call.requestId
       IN /\ ( call.op = "decline" /\ Acts(c) )
             => UNCHANGED <<teacher_schedule_slots, course_schedule_slots>>
          /\ ( /\ call.pc = "dec_mark" /\ Acts(c) /\ Stored(r)
               /\ schedule_change_requests'[r].status = "declined" )
             => /\ schedule_change_requests[r].status = "pending"
                /\ ~WrittenFor(r)
          /\ ( /\ call.op = "approve" /\ Acts(c) /\ Stored(r)
               /\ <<teacher_schedule_slots, course_schedule_slots>>' #
                    <<teacher_schedule_slots, course_schedule_slots>> )
             => schedule_change_requests[r].status # "declined"]_vars

\* request q competes with request r: another request on the same teacher
\* slot, both asking for a day, a start and an end
Competes(q, r) ==
  /\ q # r
  /\ Stored(q) /\ Stored(r)
  /\ schedule_change_requests[q].slot_id = schedule_change_requests[r].slot_id
  /\ AllRequested(schedule_change_requests[q])
  /\ AllRequested(schedule_change_requests[r])

\* the approve answered last was that of a request whose competitor had
\* been approved before it: both are approved and the teacher slot holds
\* the day, start and end of the request approved last
LastWriterHolds ==
  \A q \in 1..Len(schedule_change_requests) :
    ( /\ calls = << >>
      /\ last.op = "approve" /\ last.status = 200
      /\ Competes(q, last.requestId)
      /\ schedule_change_requests[q].status = "approved" )
    => LET request == schedule_change_requests[last.requestId]
           slot == teacher_schedule_slots[request.slot_id]
       IN /\ request.status = "approved"
          /\ slot.day_of_week = request.requested_day_of_week
          /\ slot.start_time = request.requested_start_time
          /\ slot.end_time = request.requested_end_time

\* C27 (last writer wins): with approvals made one after the other and no
\* store error, no step of an approve changes the row of another request,
\* and once the second of two competing requests has been approved both are
\* approved and the teacher slot holds the second one's requested day,
\* start and end.
C27_LastWriterWins ==
  [][/\ \A c \in 1..Len(calls) :
          ( calls[c].op = "approve" /\ Acts(c) )
          => /\ Len(schedule_change_requests') =
                  Len(schedule_change_requests)
             /\ \A q \in 1..Len(schedule_change_requests) :
                  q # calls[c].requestId
                  => schedule_change_requests'[q] =
                       schedule_change_requests[q]
     /\ LastWriterHolds']_vars

\* R1 and then R2, both on slot 1, have been approved: the slot has R2's
\* day, start and end, which are not R1's, and the teacher has two
\* notifications
C27_Witness ==
  /\ calls = << >>
  /\ last.op = "approve" /\ last.status = 200 /\ last.requestId = 2
  /\ Competes(1, 2)
  /\ schedule_change_requests[1].status = "approved"
  /\ schedule_change_requests[2].status = "approved"
  /\ schedule_change_requests[1].requested_day_of_week #
       schedule_change_requests[2].requested_day_of_week
  /\ teacher_schedule_slots[1].day_of_week =
       schedule_change_requests[2].requested_day_of_week
  /\ teacher_schedule_slots[1].start_time =
       schedule_change_requests[2].requested_start_time
  /\ teacher_schedule_slots[1].end_time =
       schedule_change_requests[2].requested_end_time
  /\ Cardinality(ApprovedNotificationsFor("T1")) = 2

\* C28 (ordering inside approve with requested fields): the teacher-slot
\* update comes first and writes neither a course slot nor the request;
\* the Synchronizer runs next and writes neither the teacher slot nor the
\* request; the status write is reached only from the Synchronizer's return
\* (or from the slot update when the slot has no course), so it comes after
\* the slot update.  A call that stops between the slot update and the
\* Synchronizer's read has left the teacher slot changed, the course slots
\* and the request as they were.
C28_ApproveOrdering ==
  [][\A c \in 1..Len(calls) :
       LET call == calls[c] IN
       call.op = "approve" /\ Acts(c)
       => /\ call.pc = "apr_fetch" => UNCHANGED tables
          /\ ( call.pc = "apr_update" /\ NoFault
               /\ call.request.slot_id \in DOMAIN teacher_schedule_slots )
             => /\ \A f \in {"day_of_week", "start_time", "end_time"} :
                     call.request["requested_" \o f] \notin {NULL, ""}
                     => teacher_schedule_slots'[call.request.slot_id][f] =
                          call.request["requested_" \o f]
                /\ UNCHANGED <<course_schedule_slots,
                               schedule_change_requests, notifications>>
                /\ Len(calls') = Len(calls)
                /\ calls'[c].pc = "sync_find"
                   \/ ( calls'[c].pc = "apr_mark"
                        /\ call.request.course_id \in {NULL, ""} )
          /\ call.pc \in {"sync_find", "sync_update", "sync_insert"}
             => /\ UNCHANGED <<teacher_schedule_slots,
                               schedule_change_requests, notifications>>
                /\ Len(calls') = Len(calls)
                /\ calls'[c].pc \in {"sync_update", "sync_insert",
                                      "apr_mark"}
          /\ ( Len(calls') = Len(calls) /\ calls'[c].pc = "apr_mark" )
             => call.pc \in {"apr_update", "sync_find", "sync_update",
                             "sync_insert"}
          /\ ( /\ Stored(call.requestId)
               /\ schedule_change_requests'[call.requestId].status #
                    schedule_change_requests[call.requestId].status )
             => call.pc \in {"apr_mark", "apr_mark_only"}]_vars

\* an approve stands between its slot update and the Synchronizer's read:
\* the teacher slot has the requested day, start and end, the course-slot
\* row of the pair still has the old ones and the request is pending, so a
\* new approve would find it
C28_Witness ==
  \E c \in 1..Len(calls) :
    LET call == calls[c] IN
    /\ call.op = "approve" /\ call.pc = "sync_find"
    /\ Stored(call.requestId)
    /\ LET request == schedule_change_requests[call.requestId]
           slot == teacher_schedule_slots[request.slot_id]
       IN /\ AllRequested(request)
          /\ request.status = "pending"
          /\ ScenarioMirrored(request)
          /\ slot.day_of_week = request.requested_day_of_week
          /\ slot.start_time = request.requested_start_time
          /\ slot.end_time = request.requested_end_time
          /\ slot.day_of_week # request.current_day_of_week
          /\ course_schedule_slots = ScenarioCourseTable
          /\ course_schedule_slots[1].day_of_week =
               request.current_day_of_week

\* the teacher slot has a course and a teacher
Paired(slot) ==
  /\ slot.course_id \notin {NULL, ""}
  /\ slot.teacher_id \notin {NULL, ""}

\* C29: the Synchronizer writes only inside its own (course, teacher) pair.
\* No step of a run writes teacher_schedule_slots, schedule_change_requests
\* or notifications or removes a course-slot row; every course-slot row a
\* step changes or adds has, before and after, the course and the teacher
\* of the teacher slot; and a run for a teacher slot without a course or
\* without a teacher never reaches the read or a write.
C29_WritesOwnPairOnly ==
  [][\A c \in 1..Len(calls) :
       LET call == calls[c]
           slot == call.slot
           rows == course_schedule_slots
       IN ( call.pc \in {"sync_find", "sync_update", "sync_insert",
                          "sync_done"}
            /\ Acts(c) )
          => /\ UNCHANGED <<teacher_schedule_slots,
                            schedule_change_requests, notifications>>
             /\ Len(rows') >= Len(rows)
             /\ \A i \in 1..Len(rows) :
                  rows'[i] # rows[i]
                  => /\ rows[i].course_id = slot.course_id
                     /\ rows[i].teacher_id = slot.teacher_id
                     /\ rows'[i].course_id = slot.course_id
                     /\ rows'[i].teacher_id = slot.teacher_id
             /\ \A i \in (Len(rows) + 1)..Len(rows') :
                  /\ rows'[i].course_id = slot.course_id
                  /\ rows'[i].teacher_id = slot.teacher_id
             /\ call.pc # "sync_done" => Paired(slot)
             /\ ~Paired(slot)
                => /\ UNCHANGED tables
                   /\ Len(calls') = Len(calls)
                   /\ calls'[c].pc = "sync_done"]_vars

\* a run for (C1, T1) has returned: a row of the pair has the teacher
\* slot's day, start, end and location, and a row of another teacher or
\* another course, at the old day and times, is as it was drawn
C29_Witness ==
  /\ Len(calls) = 1
  /\ calls[1].pc = "sync_done"
  /\ Paired(calls[1].slot)
  /\ \E i, j \in 1..Len(course_schedule_slots) :
       /\ course_schedule_slots[i].course_id = calls[1].slot.course_id
       /\ course_schedule_slots[i].teacher_id = calls[1].slot.teacher_id
       /\ HasTimesOf(course_schedule_slots[i], calls[1].slot)
       /\ course_schedule_slots[i].location = "R2"
       /\ \/ course_schedule_slots[j].course_id # calls[1].slot.course_id
          \/ course_schedule_slots[j].teacher_id # calls[1].slot.teacher_id
       /\ course_schedule_slots[j].location = "R1"
       /\ course_schedule_slots[j].day_of_week = "Tue"

\* request r is stored and pending and its teacher slot is no longer stored
Orphaned(r) ==
  /\ Stored(r)
  /\ schedule_change_requests[r].status = "pending"
  /\ schedule_change_requests[r].slot_id \notin DOMAIN teacher_schedule_slots

\* C30: a pending request whose teacher slot has been deleted.  An approve
\* that reads it with a requested day, start or end goes to the slot
\* update, and a slot update that finds no slot answers 500 and writes no
\* table: the request stays pending and no notification is inserted.  A
\* decline that reads it goes on to mark it declined and answers 200; an
\* approve that reads it with no requested field goes on to mark it
\* approved and answers 200.
C30_OrphanedRequest ==
  [][\A c \in 1..Len(calls) :
       LET call == calls[c]
           r == call.requestId
       IN Acts(c) =>
          /\ ( call.pc = "apr_fetch" /\ Orphaned(r) )
             => /\ Len(calls') = Len(calls)
                /\ calls'[c].pc =
                     IF NoneRequested(schedule_change_requests[r])
                     THEN "apr_mark_only" ELSE "apr_update"
                /\ UNCHANGED <<tables, events>>
          /\ ( /\ call.pc = "apr_update"
               /\ call.request.slot_id \notin DOMAIN teacher_schedule_slots )
             => /\ Answers(c, 500)
                /\ UNCHANGED <<tables, events>>
          /\ ( call.pc = "dec_fetch" /\ Orphaned(r) )
             => /\ Len(calls') = Len(calls)
                /\ calls'[c].pc = "dec_mark"
          /\ call.pc = "dec_mark"
             => /\ schedule_change_requests'[r].status = "declined"
                /\ Len(calls') = Len(calls)
                /\ calls'[c].pc = "dec_notify"
          /\ call.pc = "dec_notify" => Answers(c, 200)
          /\ call.pc = "apr_mark_only"
             => /\ schedule_change_requests'[r].status = "approved"
                /\ Len(calls') = Len(calls)
                /\ calls'[c].pc = "apr_notify_only"
          /\ call.pc = "apr_notify_only" => Answers(c, 200)]_vars

\* after the delete of its slot an approve of a request with requested
\* times has answered 500 at the slot update: the request is pending, there
\* is no notification and the course-slot table is as it was
C30_Witness ==
  /\ last.op = "approve" /\ last.status = 500 /\ last.pc = "apr_update"
  /\ last.errors = 0
  /\ Orphaned(last.requestId)
  /\ AllRequested(schedule_change_requests[last.requestId])
  /\ notifications = << >>
  /\ course_schedule_slots = ScenarioCourseTable
  /\ \E e \in 1..Len(events) :
       events[e].name = "admin-timetable-refresh" /\ events[e].type = "delete"

====
